---- MODULE Spec2Model ----
(***************************************************************************)
(* A model of simple_visualizer.core.physics_engine.PhysicsEngine: the     *)
(* registry of simulated entities with their parameter records, the        *)
(* per-tick integration with friction, threshold and ground clamp, and the *)
(* pairwise collision pass.                                                *)
(*                                                                         *)
(* Python floats are modelled as fixed-point integers: the number x is the *)
(* integer x * One, and every product and quotient is rounded toward zero  *)
(* to that grid.  A dict is a function whose DOMAIN is its key set.        *)
(***************************************************************************)
EXTENDS Integers, Sequences, FiniteSets, TLC

VARIABLES
    objects,          \* self.objects: the registered names, in dict insertion order
    physics_params,   \* self.physics_params: name -> parameter record
    gravity,          \* self.gravity
    position,         \* obj.position of every entity of the scene
    dt,               \* the time step of the most recent update()
    contacts,         \* the pairs _check_collision reported in the most recent update()
    considered,       \* the pairs _check_collision was called with, in order, there
    position_updated, \* the object_position_updated signals of the most recent update()
    collider_updated, \* the collider_updated signals of the most recent call
    call,             \* the most recent call of the engine's interface and how it ended
    ticks,            \* the number of update() calls so far
    clock,            \* time.time() when the engine last read it
    last_update,      \* self.last_update
    calls,            \* the number of other calls of the interface so far
    animation_scripts,  \* AnimationManager.animation_scripts: name -> move script
    animation_threads,  \* AnimationManager.animation_threads: name -> AnimationThread
    waiting,          \* the name of the thread the main thread waits for in wait(), or ""
    tick,             \* where the main thread stands in an update() run step by step
    lost,             \* the entities of which update() overwrote an animation write
    vertices,         \* Mesh3D.vertices of one mesh
    _cached_bounding_radius,  \* Object3D._cached_bounding_radius of the mesh
    _geometry_changed,        \* Object3D._geometry_changed of the mesh
    mesh_call,        \* the most recent call on the mesh and what it returned
    ray,              \* a ray cast at a Sphere3D, and what ray_intersect returned
    shape,            \* the arguments of a shape generator, and what it returned
    small_pair,       \* two small entities on the x axis, lengths in millionths
    scene             \* the objects of the ObjectManager and those the engine holds

vars == <<objects, physics_params, gravity, position, dt, contacts, considered,
          position_updated, collider_updated, call, ticks, clock, last_update, calls,
          animation_scripts, animation_threads, waiting, tick, lost,
          vertices, _cached_bounding_radius, _geometry_changed, mesh_call,
          ray, shape, small_pair, scene>>

\* the state of one mesh
mesh_vars == <<vertices, _cached_bounding_radius, _geometry_changed, mesh_call>>

\* the geometry of the entities, which neither the engine nor the animation touches
geometry_vars == <<mesh_vars, ray, shape, small_pair, scene>>

\* the state of the animation manager and of its threads
animation_vars == <<animation_scripts, animation_threads, waiting>>

\* the state outside the physics engine and the positions
outside_engine == <<animation_vars, tick, lost, geometry_vars>>

----------------------------------------------------------------------------
(* Bounds of the model *)

MaxTicks == 2

MaxCalls == 3

\* the number of update() calls of a behaviour of the scene
MaxSceneTicks == 1

\* the number of collision passes over one set of registered entities
MaxPasses == 2

----------------------------------------------------------------------------
(* Fixed-point arithmetic *)

One == 1000

Abs(x) == IF x < 0 THEN -x ELSE x

Min(x, y) == IF x < y THEN x ELSE y

TruncDiv(a, b) ==
    IF (a >= 0) = (b > 0) THEN Abs(a) \div Abs(b) ELSE -(Abs(a) \div Abs(b))

Mul(a, b) == TruncDiv(a * b, One)

Div(a, b) == TruncDiv(a * One, b)

RECURSIVE IsqrtIter(_, _, _)
IsqrtIter(x, lo, hi) ==
    IF lo >= hi THEN lo
    ELSE LET mid == (lo + hi + 1) \div 2
         IN  IF mid * mid <= x THEN IsqrtIter(x, mid, hi)
                               ELSE IsqrtIter(x, lo, mid - 1)

Isqrt(x) == IsqrtIter(x, 0, 40000)

SumSq(v) == v[1] * v[1] + v[2] * v[2] + v[3] * v[3]

Norm(v) == Isqrt(SumSq(v))

Zero3 == <<0, 0, 0>>

\* F applied to the value of e, which is computed once
With(e, F(_)) == CHOOSE r \in {F(x) : x \in {e}} : TRUE

----------------------------------------------------------------------------
(* Dicts *)

EmptyDict == [k \in {} |-> 0]

\* None, a value that equals no dict
None == [None |-> TRUE]

DictUpdate(d, p) ==
    [k \in (DOMAIN d) \cup (DOMAIN p) |-> IF k \in DOMAIN p THEN p[k] ELSE d[k]]

DictPop(d, key) == [k \in (DOMAIN d) \ {key} |-> d[k]]

DictGet(d, key) == IF key \in DOMAIN d THEN d[key] ELSE None

SeqRemove(s, x) == SelectSeq(s, LAMBDA e : e # x)

SeqSet(s) == {s[i] : i \in 1..Len(s)}

----------------------------------------------------------------------------
(* The entities of the scene *)

Names == {"a", "b"}

\* Object3D.calculate_bounding_radius of the entity's mesh
calculate_bounding_radius(n) == One

\* Object3D.update_bounds: the extent of the mesh vertices
update_bounds(n) ==
    LET r == calculate_bounding_radius(n)
    IN  <<-r, -r, -r, r, r, r>>

\* whether the entity is a shape with get_collision_data (Sphere3D) or a plain Mesh3D
has_get_collision_data(n) == n = "b"

\* the placements the scene starts from
Placements ==
    { [a |-> <<0, 0, 0>>, b |-> <<1500, 0, 0>>],
      [a |-> <<0, 0, 0>>, b |-> <<0, 0, 50>>],
      [a |-> <<1000, 0, 0>>, b |-> <<1000, 0, 0>>] }

----------------------------------------------------------------------------
(* The inputs of the interface *)

DefaultGravity == <<0, 0, -9810>>

GravityChoices == { Zero3, <<0, -5000, 0>> }

\* the params argument of register_object; EmptyDict stands for None and {}
RegisterChoices ==
    { EmptyDict,
      [mass |-> 2000, velocity |-> <<1000, 0, 0>>, is_static |-> TRUE],
      [velocity |-> <<120, 160, 0>>, acceleration |-> Zero3,
       collider_data |-> [radius |-> 2000]] }

\* the params argument of set_physics_params
SetChoices ==
    { [enabled |-> FALSE],
      [friction |-> 0, velocity |-> <<0, 0, -500>>] }

\* the wall-clock time elapsed since the previous update()
ElapsedChoices == { 50, 250 }

----------------------------------------------------------------------------
(* __init__ *)

velocity_threshold == 10

\* the 9.81 of the friction force, mu * g
FrictionG == 9810

\* the largest time step of update()
MaxDt == 100

\* no update() is under way
NoTick == [pc |-> "idle", i |-> 0, d |-> 0, read |-> Zero3, sig |-> <<>>]

\* None where a radius is expected; a radius r is held as <<r>>
NoRadius == <<>>

NoCall == [op |-> "init", name |-> "", params |-> EmptyDict, hit |-> FALSE,
           repeat |-> FALSE, exc |-> "none"]

\* the record of a call: hit says whether the name was registered when the call
\* began, repeat whether the call before it was the same call and found the name
\* registered
Called(op, n, params, exc) ==
    [op |-> op, name |-> n, params |-> params,
     hit |-> n \in DOMAIN physics_params,
     repeat |-> call.op = op /\ call.name = n /\ call.hit,
     exc |-> exc]

\* the engine, the animation manager and the positions after construction
InitScene ==
    /\ objects = <<>>
    /\ physics_params = EmptyDict
    /\ gravity = DefaultGravity
    /\ position \in Placements
    /\ dt = 0
    /\ contacts = {}
    /\ considered = <<>>
    /\ position_updated = <<>>
    /\ collider_updated = <<>>
    /\ call = NoCall
    /\ ticks = 0
    /\ clock = 0
    /\ last_update = 0
    /\ calls = 0
    /\ animation_scripts = EmptyDict
    /\ animation_threads = EmptyDict
    /\ waiting = ""
    /\ tick = NoTick
    /\ lost = {}

\* Mesh3D.__init__ and Object3D.__init__
InitMesh ==
    /\ vertices = <<>>
    /\ _cached_bounding_radius = NoRadius
    /\ _geometry_changed = TRUE
    /\ mesh_call = [op |-> "__init__", returned |-> NoRadius]

\* no ray cast yet
NoRay == [origin |-> Zero3, direction |-> Zero3, radius |-> 0, center |-> Zero3,
          cast |-> FALSE, t |-> NoRadius]

\* no shape generated yet
NoShape == [kind |-> "", radius |-> 0, center |-> Zero3, resolution |-> 0,
            created |-> FALSE, vertices |-> <<>>, faces |-> <<>>]

\* no pair of small entities yet
NoSmallPair == [x1 |-> 0, x2 |-> 0, size1 |-> 0, size2 |-> 0, m1 |-> 1, m2 |-> 1,
                static1 |-> FALSE, static2 |-> FALSE, done |-> FALSE,
                reported |-> FALSE, after1 |-> 0, after2 |-> 0]

\* an empty scene: no object created, none in the ObjectManager, none in the
\* engine
NoScene == [objects |-> EmptyDict, physics_objects |-> EmptyDict, created |-> 0]

Init ==
    /\ InitScene
    /\ InitMesh
    /\ ray = NoRay
    /\ shape = NoShape
    /\ small_pair = NoSmallPair
    /\ scene = NoScene
    /\ scene = NoScene

----------------------------------------------------------------------------
(* register_object *)

\* Sphere3D.get_collision_data: type, radius and center
get_collision_data(pos, n) ==
    [type |-> "CollisionType.SPHERE", radius |-> calculate_bounding_radius(n),
     center |-> pos[n]]

\* the collider types for which _emit_collider_update adds a center to the
\* descriptor of an entity without get_collision_data
known_collider_types == {"sphere", "box", "cylinder", "cone", "torus"}

\* the signal _emit_collider_update emits for a registered entity: the name with
\* None when physics is disabled, or else with the descriptor
_emit_collider_update(pp, pos, n) ==
    LET params == pp[n]
        collider_data == [type |-> params.collider_type, data |-> params.collider_data]
        radius == [radius |-> DictGet(DictUpdate([radius |-> One], params.collider_data),
                                      "radius")]
        center == [center |-> pos[n]]
    IN  IF ~params.enabled THEN <<n, None>>
        ELSE IF has_get_collision_data(n)
             THEN <<n, DictUpdate(collider_data,
                                  [type |-> get_collision_data(pos, n).type,
                                   radius |-> get_collision_data(pos, n).radius,
                                   center |-> pos[n]])>>
        ELSE IF params.collider_type \in {"sphere", "cylinder", "cone"}
             THEN <<n, DictUpdate(collider_data, DictUpdate(radius, center))>>
        ELSE IF params.collider_type \in known_collider_types
             THEN <<n, DictUpdate(collider_data, center)>>
        ELSE <<n, collider_data>>

default_collider_data(n) ==
    LET bounding_radius == calculate_bounding_radius(n)
    IN  [radius |-> bounding_radius,
         bounds |-> update_bounds(n),
         height |-> bounding_radius * 2,
         radius_cylinder |-> Mul(bounding_radius, 500)]

\* a variant that takes the acceleration from the initial gravity
default_params_initial_gravity(n) ==
    [enabled |-> TRUE,
     mass |-> One,
     velocity |-> Zero3,
     acceleration |-> DefaultGravity,
     is_static |-> FALSE,
     restitution |-> 500,
     friction |-> 300,
     collider_type |-> IF has_get_collision_data(n) THEN "CollisionType.SPHERE"
                                                     ELSE "sphere",
     collider_data |-> default_collider_data(n),
     bounds |-> update_bounds(n)]

default_params(n) ==
    [enabled |-> TRUE,
     mass |-> One,
     velocity |-> Zero3,
     acceleration |-> gravity,
     is_static |-> FALSE,
     restitution |-> 500,
     friction |-> 300,
     collider_type |-> IF has_get_collision_data(n) THEN "CollisionType.SPHERE"
                                                     ELSE "sphere",
     collider_data |-> default_collider_data(n),
     bounds |-> update_bounds(n)]

\* a variant that replaces the default collider_data by the override
merged_collider_data_replaced(d, params) ==
    IF "collider_data" \in DOMAIN params THEN params.collider_data ELSE d.collider_data

\* the merge of the collider_data override into the default collider_data
merged_collider_data(d, params) ==
    IF "collider_data" \in DOMAIN params
    THEN DictUpdate(d.collider_data, params.collider_data)
    ELSE d.collider_data

\* the record register_object stores
registered_record(n, params) ==
    LET d == default_params(n)
    IN  IF params # EmptyDict
        THEN DictUpdate([d EXCEPT !.collider_data = merged_collider_data(d, params)],
                        DictPop(params, "collider_data"))
        ELSE d

register_object(n, params) ==
    /\ calls < MaxCalls
    /\ objects' = IF n \in SeqSet(objects) THEN objects ELSE Append(objects, n)
    /\ physics_params' = DictUpdate(physics_params, [k \in {n} |-> registered_record(n, params)])
    /\ collider_updated' = <<_emit_collider_update(physics_params', position, n)>>
    /\ call' = Called("register_object", n, params, "none")
    /\ calls' = calls + 1
    /\ UNCHANGED <<gravity, position, dt, contacts, considered, position_updated, ticks,
                 clock, last_update>>
    /\ UNCHANGED outside_engine

----------------------------------------------------------------------------
(* unregister_object, is_physics_enabled, get_physics_params, set_physics_params *)

\* a variant that forgets to pop the entity
objects_pop_forgotten(objs, n) == objs

objects_pop(objs, n) == SeqRemove(objs, n)

\* a variant that forgets to pop the record
physics_params_pop_forgotten(pp, n) == pp

physics_params_pop(pp, n) == DictPop(pp, n)

unregister_object(n) ==
    /\ calls < MaxCalls
    /\ objects' = objects_pop(objects, n)
    /\ physics_params' = physics_params_pop(physics_params, n)
    /\ collider_updated' = <<>>
    /\ call' = Called("unregister_object", n, EmptyDict, "none")
    /\ calls' = calls + 1
    /\ UNCHANGED <<gravity, position, dt, contacts, considered, position_updated, ticks,
                 clock, last_update>>
    /\ UNCHANGED outside_engine

\* a variant that tests the registration only
is_physics_enabled_registered(n) == n \in DOMAIN physics_params

is_physics_enabled(n) ==
    n \in DOMAIN physics_params /\ physics_params[n].enabled

get_physics_params(n) == DictGet(physics_params, n)

\* a variant that assigns the record instead of updating it
params_after_set_replaced(pp, n, params) ==
    IF n \in DOMAIN pp THEN [pp EXCEPT ![n] = params] ELSE pp

\* the parameter map set_physics_params leaves
params_after_set(pp, n, params) ==
    IF n \in DOMAIN pp
    THEN [pp EXCEPT ![n] = DictUpdate(pp[n], params)]
    ELSE pp

set_physics_params(n, params) ==
    /\ calls < MaxCalls
    /\ physics_params' = params_after_set(physics_params, n, params)
    /\ collider_updated' = <<>>
    /\ call' = Called("set_physics_params", n, params, "none")
    /\ calls' = calls + 1
    /\ UNCHANGED <<objects, gravity, position, dt, contacts, considered, position_updated, ticks,
                 clock, last_update>>
    /\ UNCHANGED outside_engine

----------------------------------------------------------------------------
(* set_gravity *)

\* the loop of set_gravity runs over self.objects.values(), the entities, and
\* subscripts each with 'is_static': an entity is no dict, so the first
\* iteration raises TypeError, after self.gravity was assigned
set_gravity_raises(objs) == Len(objs) > 0

set_gravity(g) ==
    /\ calls < MaxCalls
    /\ gravity' = g
    /\ collider_updated' = <<>>
    /\ call' = Called("set_gravity", "", [gravity |-> g],
                       IF set_gravity_raises(objects) THEN "TypeError" ELSE "none")
    /\ calls' = calls + 1
    /\ UNCHANGED <<objects, physics_params, position, dt, contacts, considered, position_updated, ticks,
                 clock, last_update>>
    /\ UNCHANGED outside_engine

----------------------------------------------------------------------------
(* update: the integration of one entity *)

\* speed / friction_deceleration, or friction_force / mass, divides by zero
friction_raises(p) ==
    /\ Norm(p.velocity) > 0
    /\ \/ p.mass = 0
       \/ Div(Mul(p.friction, FrictionG), p.mass) = 0

\* the velocity after the friction deceleration
friction_velocity(p, d) ==
    LET velocity == p.velocity
        friction_force == Mul(p.friction, FrictionG)
        friction_deceleration == Div(friction_force, p.mass)
        slowed(speed, friction_dt) ==
            LET comp(i) == IF Abs(velocity[i]) > 0
                           THEN velocity[i]
                                + Mul(Mul(-Div(velocity[i], speed), friction_deceleration),
                                      friction_dt)
                           ELSE velocity[i]
            IN  <<comp(1), comp(2), comp(3)>>
    IN  With(Norm(velocity), LAMBDA speed :
            IF speed > 0
            THEN With(Min(d, Div(speed, friction_deceleration)),
                      LAMBDA friction_dt : slowed(speed, friction_dt))
            ELSE velocity)

\* the velocity after the main acceleration
accelerated_velocity(v, acceleration, d) ==
    <<v[1] + Mul(acceleration[1], d),
      v[2] + Mul(acceleration[2], d),
      v[3] + Mul(acceleration[3], d)>>

\* a variant without the check for a speed that is too small
threshold_velocity_kept(v) == v

\* the velocity after the check for a speed that is too small
threshold_velocity(v) ==
    IF Norm(v) < velocity_threshold THEN Zero3 ELSE v

\* a variant that adds the acceleration before the friction
integrated_velocity_accelerated_first(p, d) ==
    threshold_velocity(
        friction_velocity([p EXCEPT !.velocity = accelerated_velocity(p.velocity, p.acceleration, d)],
                          d))

\* the velocity one tick computes, before the ground is checked
integrated_velocity(p, d) ==
    threshold_velocity(accelerated_velocity(friction_velocity(p, d), p.acceleration, d))

\* the position one tick computes, before the ground is checked
integrated_position(pos, v, d) ==
    <<pos[1] + Mul(v[1], d), pos[2] + Mul(v[2], d), pos[3] + Mul(v[3], d)>>

\* a variant that leaves the height below the ground
ground_position_unclamped(pos) == pos

ground_position(pos) ==
    IF pos[3] < 0 THEN <<pos[1], pos[2], 0>> ELSE pos

ground_velocity(pos, v, restitution) ==
    IF pos[3] < 0 THEN <<v[1], v[2], Mul(-v[3], restitution)>> ELSE v

\* the velocity and the position one tick gives a dynamic entity
integrated(params, pos0, d) ==
    With(integrated_velocity(params, d), LAMBDA v :
        With(integrated_position(pos0, v, d), LAMBDA pos :
            [velocity |-> ground_velocity(pos, v, params.restitution),
             position |-> ground_position(pos)]))

\* a variant that forgets the is_static test of update()
integrates_static_too(params) == TRUE

\* whether update() moves the entity
integrates(params) == ~params.is_static

RECURSIVE integrate_objects(_, _, _)
\* the first loop of update(), from the i-th registered entity on; st holds the
\* parameter map, the positions and the signals so far, and the exception that
\* ended the loop
integrate_objects(i, st, d) ==
    IF i > Len(objects) THEN st
    ELSE LET name == objects[i]
             params == st.pp[name]
             bounded == [st.pp EXCEPT ![name].bounds = update_bounds(name)]
         IN  IF ~params.enabled THEN integrate_objects(i + 1, st, d)
             ELSE IF ~integrates(params)
                  THEN integrate_objects(i + 1, [st EXCEPT !.pp = bounded], d)
             ELSE IF friction_raises(params)
                  THEN [st EXCEPT !.pp = bounded, !.exc = "ZeroDivisionError"]
             ELSE With(integrated(params, st.pos[name], d), LAMBDA new :
                      integrate_objects(i + 1,
                          [pp |-> [bounded EXCEPT ![name].velocity = new.velocity],
                           pos |-> [st.pos EXCEPT ![name] = new.position],
                           sig |-> Append(st.sig, <<name, new.position>>),
                           exc |-> "none",
                           hits |-> {}, seen |-> <<>>],
                          d))

----------------------------------------------------------------------------
(* update: the collision pass *)

Sub3(u, v) == <<u[1] - v[1], u[2] - v[2], u[3] - v[3]>>

Dot(u, v) == Mul(u[1], v[1]) + Mul(u[2], v[2]) + Mul(u[3], v[3])

distance(pos1, pos2) == Norm(Sub3(pos1, pos2))

\* a variant without the test of the two enabled flags
_check_collision_of_disabled(st, n1, n2) ==
    LET params1 == st.pp[n1]
        params2 == st.pp[n2]
        size1 == calculate_bounding_radius(n1)
        size2 == calculate_bounding_radius(n2)
        min_penetration == Mul(size1 + size2, 10)
    IN  IF params1.is_static /\ params2.is_static THEN FALSE
        ELSE With(distance(st.pos[n1], st.pos[n2]), LAMBDA dist :
                 IF (size1 + size2) - dist < min_penetration THEN FALSE
                 ELSE dist < (size1 + size2))

\* a variant without the test of the least penetration
_check_collision_without_threshold(st, n1, n2) ==
    LET params1 == st.pp[n1]
        params2 == st.pp[n2]
        size1 == calculate_bounding_radius(n1)
        size2 == calculate_bounding_radius(n2)
    IN  IF params1.is_static /\ params2.is_static THEN FALSE
        ELSE IF ~(params1.enabled /\ params2.enabled) THEN FALSE
        ELSE distance(st.pos[n1], st.pos[n2]) < (size1 + size2)

\* a variant without the test of the two is_static flags
_check_collision_of_static(st, n1, n2) ==
    LET params1 == st.pp[n1]
        params2 == st.pp[n2]
        size1 == calculate_bounding_radius(n1)
        size2 == calculate_bounding_radius(n2)
        min_penetration == Mul(size1 + size2, 10)
    IN  IF ~(params1.enabled /\ params2.enabled) THEN FALSE
        ELSE With(distance(st.pos[n1], st.pos[n2]), LAMBDA dist :
                 IF (size1 + size2) - dist < min_penetration THEN FALSE
                 ELSE dist < (size1 + size2))

_check_collision(st, n1, n2) ==
    LET params1 == st.pp[n1]
        params2 == st.pp[n2]
        size1 == calculate_bounding_radius(n1)
        size2 == calculate_bounding_radius(n2)
        min_penetration == Mul(size1 + size2, 10)
    IN  IF params1.is_static /\ params2.is_static THEN FALSE
        ELSE IF ~(params1.enabled /\ params2.enabled) THEN FALSE
        ELSE With(distance(st.pos[n1], st.pos[n2]), LAMBDA dist :
                 IF (size1 + size2) - dist < min_penetration THEN FALSE
                 ELSE dist < (size1 + size2))

\* whether _handle_collision writes the entity's position and velocity
receives_collision(params) == ~params.is_static

\* a variant that takes the shares of two dynamic entities with the floor
\* division, m2 // (m1 + m2)
correction_ratios_floored(params1, params2) ==
    LET m1 == params1.mass
        m2 == params2.mass
    IN  IF ~params1.is_static /\ ~params2.is_static
        THEN <<(m2 \div (m1 + m2)) * One, (m1 \div (m1 + m2)) * One>>
        ELSE IF params1.is_static THEN <<0, One>>
        ELSE <<One, 0>>

\* the shares of the positional correction
correction_ratios(params1, params2) ==
    LET m1 == params1.mass
        m2 == params2.mass
    IN  IF ~params1.is_static /\ ~params2.is_static
        THEN <<Div(m2, m1 + m2), Div(m1, m1 + m2)>>
        ELSE IF params1.is_static THEN <<0, One>>
        ELSE <<One, 0>>

\* a variant that takes the restitution of the first entity
impulse_of_first_restitution(params1, params2, normal_velocity) ==
    LET m1 == params1.mass
        m2 == params2.mass
        restitution == Mul(params1.restitution, 1200)
        j == Mul(-(One + restitution), normal_velocity)
    IN  IF ~params1.is_static /\ ~params2.is_static
        THEN Div(j, Div(One, m1) + Div(One, m2))
        ELSE IF params1.is_static THEN Mul(j, m2)
        ELSE Mul(j, m1)

\* whether _handle_collision returns before it applies the impulse
impulse_skipped(normal_velocity) == normal_velocity > 0

impulse(params1, params2, normal_velocity) ==
    LET m1 == params1.mass
        m2 == params2.mass
        restitution == Mul(Min(params1.restitution, params2.restitution), 1200)
        j == Mul(-(One + restitution), normal_velocity)
    IN  IF ~params1.is_static /\ ~params2.is_static
        THEN Div(j, Div(One, m1) + Div(One, m2))
        ELSE IF params1.is_static THEN Mul(j, m2)
        ELSE Mul(j, m1)

\* the collision normal, from obj1 to obj2
collision_normal(direction, length) ==
    <<Div(direction[1], length), Div(direction[2], length), Div(direction[3], length)>>

\* _handle_collision from the positional correction on
resolve_collision(st, n1, n2, length, normal) ==
    LET params1 == st.pp[n1]
        params2 == st.pp[n2]
        m1 == params1.mass
        m2 == params2.mass
        v1 == params1.velocity
        v2 == params2.velocity
        pos1 == st.pos[n1]
        pos2 == st.pos[n2]
        size1 == calculate_bounding_radius(n1)
        size2 == calculate_bounding_radius(n2)
        penetration == (size1 + size2) - length
        correction == Mul(penetration, One)
        ratio == correction_ratios(params1, params2)
        new_pos1 == IF receives_collision(params1)
                    THEN <<pos1[1] - Mul(Mul(normal[1], correction), ratio[1]),
                           pos1[2] - Mul(Mul(normal[2], correction), ratio[1]),
                           pos1[3] - Mul(Mul(normal[3], correction), ratio[1])>>
                    ELSE pos1
        new_pos2 == IF receives_collision(params2)
                    THEN <<pos2[1] + Mul(Mul(normal[1], correction), ratio[2]),
                           pos2[2] + Mul(Mul(normal[2], correction), ratio[2]),
                           pos2[3] + Mul(Mul(normal[3], correction), ratio[2])>>
                    ELSE pos2
        corrected == [st EXCEPT !.pos = [st.pos EXCEPT ![n1] = new_pos1, ![n2] = new_pos2]]
        new_v1(j) == IF receives_collision(params1)
                     THEN <<v1[1] + Div(Mul(j, normal[1]), m1),
                            v1[2] + Div(Mul(j, normal[2]), m1),
                            v1[3] + Div(Mul(j, normal[3]), m1)>>
                     ELSE v1
        new_v2(j) == IF receives_collision(params2)
                     THEN <<v2[1] - Div(Mul(j, normal[1]), m2),
                            v2[2] - Div(Mul(j, normal[2]), m2),
                            v2[3] - Div(Mul(j, normal[3]), m2)>>
                     ELSE v2
    IN  IF penetration < 1 THEN st
        ELSE With(Dot(Sub3(v1, v2), normal), LAMBDA normal_velocity :
                 IF impulse_skipped(normal_velocity) THEN corrected
                 ELSE With(impulse(params1, params2, normal_velocity), LAMBDA j :
                          [corrected EXCEPT !.pp = [st.pp EXCEPT ![n1].velocity = new_v1(j),
                                                                 ![n2].velocity = new_v2(j)]]))

_handle_collision(st, n1, n2) ==
    IF st.pp[n1].is_static /\ st.pp[n2].is_static THEN st
    ELSE With(Sub3(st.pos[n2], st.pos[n1]), LAMBDA direction :
             With(Norm(direction), LAMBDA length :
                 IF length = 0 THEN st
                 ELSE With(collision_normal(direction, length), LAMBDA normal :
                          resolve_collision(st, n1, n2, length, normal))))

RECURSIVE _check_collisions(_, _, _)
\* the pairs (i, j), i < j, of list(self.objects.values()), in the order of the loops
_check_collisions(i, j, st) ==
    IF i >= Len(objects) THEN st
    ELSE IF j > Len(objects) THEN _check_collisions(i + 1, i + 2, st)
    ELSE With([st EXCEPT !.seen = Append(st.seen, <<objects[i], objects[j]>>)], LAMBDA at :
             IF _check_collision(at, objects[i], objects[j])
             THEN With(_handle_collision(at, objects[i], objects[j]), LAMBDA handled :
                      _check_collisions(i, j + 1,
                          [handled EXCEPT
                               !.hits = at.hits \cup {<<objects[i], objects[j]>>}]))
             ELSE _check_collisions(i, j + 1, at))

----------------------------------------------------------------------------
(* update *)

\* the last loop of update(): one _emit_collider_update per registered entity,
\* which an exception before it skips
emitted_colliders(done) ==
    IF done.exc = "none"
    THEN [i \in 1..Len(objects) |-> _emit_collider_update(done.pp, done.pos, objects[i])]
    ELSE <<>>

\* a variant that also puts to sleep, enabled = false, the entities it leaves
\* at rest
updated_sleeping(d) ==
    LET start == [pp |-> physics_params, pos |-> position, sig |-> <<>>,
                  exc |-> "none", hits |-> {}, seen |-> <<>>]
    IN  With(integrate_objects(1, start, d), LAMBDA moved :
            With(IF moved.exc = "none" THEN _check_collisions(1, 2, moved) ELSE moved,
                 LAMBDA done :
                     [done EXCEPT !.pp = [n \in DOMAIN done.pp |->
                         [done.pp[n] EXCEPT !.enabled =
                             done.pp[n].enabled /\ done.pp[n].velocity # Zero3]]]))

\* what update() leaves: the integration of every entity, and the collision pass
\* unless the integration raised
updated(d) ==
    LET start == [pp |-> physics_params, pos |-> position, sig |-> <<>>,
                  exc |-> "none", hits |-> {}, seen |-> <<>>]
    IN  With(integrate_objects(1, start, d), LAMBDA moved :
            IF moved.exc = "none" THEN _check_collisions(1, 2, moved) ELSE moved)

\* a variant without the limit of 0.1
time_step_unclamped(current_time) == current_time - last_update

\* the time step of an update() that reads the clock at current_time
time_step(current_time) == Min(current_time - last_update, MaxDt)

update(elapsed) ==
    /\ ticks < MaxTicks
    /\ clock' = clock + elapsed
    /\ last_update' = clock'
    /\ \E done \in {updated(time_step(clock'))} :
           /\ dt' = time_step(clock')
           /\ physics_params' = done.pp
           /\ position' = done.pos
           /\ position_updated' = done.sig
           /\ contacts' = done.hits
           /\ considered' = done.seen
           /\ collider_updated' = emitted_colliders(done)
           /\ call' = Called("update", "", EmptyDict, done.exc)
    /\ ticks' = ticks + 1
    /\ UNCHANGED <<objects, gravity, calls>>
    /\ UNCHANGED outside_engine

----------------------------------------------------------------------------
(* AnimationManager and AnimationThread *)

\* the move scripts given to set_object_script: one that mirrors x around 0.5,
\* and one that raises NameError
ScriptChoices == { "result = [1 - x, y, z]", "result = undefined_variable" }

\* exec(self.move_script, ...) at the position pos: whether it raised, and the
\* result it left
exec_move_script(script, pos) ==
    IF script = "result = undefined_variable"
    THEN [raised |-> TRUE, result |-> pos]
    ELSE [raised |-> FALSE, result |-> <<One - pos[1], pos[2], pos[3]>>]

\* AnimationThread.__init__
AnimationThread(move_script) ==
    [pc |-> "created", running |-> FALSE, move_script |-> move_script,
     stop_called |-> FALSE, error_occurred |-> FALSE]

\* whether a thread of the name was started and has not left run()
unfinished(n) ==
    n \in DOMAIN animation_threads /\ animation_threads[n].pc \in {"started", "loop"}

set_object_script(n, script) ==
    /\ waiting = ""
    /\ ~unfinished(n)
    /\ animation_scripts' = DictUpdate(animation_scripts, [k \in {n} |-> script])
    /\ UNCHANGED <<animation_threads, waiting>>

\* AnimationManager.run_animation, for a name whose earlier thread, if any, has
\* left run(): it creates a thread and calls start()
run_animation(n) ==
    /\ waiting = ""
    /\ ~unfinished(n)
    /\ ~(n \in DOMAIN animation_threads /\ animation_threads[n].running)
    /\ n \in DOMAIN animation_scripts
    /\ animation_threads' =
           DictUpdate(animation_threads,
                      [k \in {n} |-> [AnimationThread(animation_scripts[n])
                                          EXCEPT !.pc = "started"]])
    /\ UNCHANGED <<animation_scripts, waiting>>

\* the assignment that stop() makes to self.running
stopped_running(thread) == FALSE

\* AnimationThread.stop, called by the main thread
stop(n) ==
    /\ waiting = ""
    /\ n \in DOMAIN animation_threads
    /\ animation_threads' = [animation_threads EXCEPT
                                 ![n].running = stopped_running(animation_threads[n]),
                                 ![n].stop_called = TRUE]
    /\ UNCHANGED <<animation_scripts, waiting>>

\* AnimationManager.stop_animation of a thread that is running: stop(), then
\* wait(); of any other name it changes nothing
stop_animation(n) ==
    /\ waiting = ""
    /\ n \in DOMAIN animation_threads
    /\ animation_threads[n].running
    /\ animation_threads' = [animation_threads EXCEPT
                                 ![n].running = stopped_running(animation_threads[n]),
                                 ![n].stop_called = TRUE]
    /\ waiting' = n
    /\ UNCHANGED animation_scripts

\* QThread.wait returns when the thread has left run()
wait_returns ==
    /\ waiting # ""
    /\ animation_threads[waiting].pc = "finished"
    /\ waiting' = ""
    /\ UNCHANGED <<animation_scripts, animation_threads>>

\* the value run() gives self.running before its loop
run_begin_running(thread) == TRUE

\* the beginning of AnimationThread.run, in the thread
run_begin(n) ==
    /\ n \in DOMAIN animation_threads
    /\ animation_threads[n].pc = "started"
    /\ animation_threads' = [animation_threads EXCEPT
                                 ![n].pc = "loop",
                                 ![n].running = run_begin_running(animation_threads[n])]
    /\ UNCHANGED <<position, animation_scripts, waiting>>

\* one turn of the loop of run(): the script runs and its result is applied with
\* set_transform, or the script raises and the loop ends
run_loop(n) ==
    /\ n \in DOMAIN animation_threads
    /\ animation_threads[n].pc = "loop"
    /\ animation_threads[n].running
    /\ \E done \in {exec_move_script(animation_threads[n].move_script, position[n])} :
           IF done.raised
           THEN /\ animation_threads' = [animation_threads EXCEPT
                                             ![n].error_occurred = TRUE,
                                             ![n].running = FALSE,
                                             ![n].pc = "finished"]
                /\ UNCHANGED position
           ELSE /\ position' = [position EXCEPT ![n] = done.result]
                /\ UNCHANGED animation_threads
    /\ UNCHANGED <<animation_scripts, waiting>>

\* the loop of run() finds self.running false
run_exit(n) ==
    /\ n \in DOMAIN animation_threads
    /\ animation_threads[n].pc = "loop"
    /\ ~animation_threads[n].running
    /\ animation_threads' = [animation_threads EXCEPT ![n].pc = "finished"]
    /\ UNCHANGED <<position, animation_scripts, waiting>>

\* a step of the thread of the name
run(n) == run_begin(n) \/ run_loop(n) \/ run_exit(n)

\* the physics engine with everything but the positions
engine_state == <<objects, physics_params, gravity, dt, contacts, considered, position_updated,
                  collider_updated, call, ticks, clock, last_update, calls, tick, lost,
                  geometry_vars>>

AnimationNext ==
    \/ \E n \in Names, script \in ScriptChoices :
           set_object_script(n, script) /\ UNCHANGED <<engine_state, position>>
    \/ \E n \in Names : run_animation(n) /\ UNCHANGED <<engine_state, position>>
    \/ \E n \in Names : stop(n) /\ UNCHANGED <<engine_state, position>>
    \/ \E n \in Names : stop_animation(n) /\ UNCHANGED <<engine_state, position>>
    \/ wait_returns /\ UNCHANGED <<engine_state, position>>
    \/ \E n \in Names : run_begin(n) /\ UNCHANGED engine_state
    \/ \E n \in Names : run_loop(n) /\ UNCHANGED engine_state
    \/ \E n \in Names : run_exit(n) /\ UNCHANGED engine_state

\* the animation manager alone, with a scheduler that lets every thread run
AnimationSpec ==
    /\ Init
    /\ [][AnimationNext]_vars
    /\ \A n \in Names : WF_vars(run(n) /\ UNCHANGED engine_state)

----------------------------------------------------------------------------
(* SceneManager: physics and animation of the same entities; update() runs in the
   main thread statement by statement while the animation threads run *)

\* the params argument of SceneManager.set_physics_params
SceneChoices == { [enabled |-> TRUE], [enabled |-> FALSE] }

\* the move script the scene's entities are animated with
SceneScripts == { "result = [1 - x, y, z]" }

\* the time the physics timer lets pass before update()
SceneElapsed == { 50 }

\* the scene starts with the two entities apart and no physics
SceneInit == Init /\ position = [a |-> Zero3, b |-> <<1500, 0, 0>>]

\* SceneManager.set_physics_params: it registers or unregisters the entity,
\* whatever animation the entity has
scene_set_physics_params(n, params) ==
    /\ waiting = ""
    /\ tick.pc = "idle"
    /\ IF "enabled" \in DOMAIN params /\ params.enabled
       THEN register_object(n, params)
       ELSE unregister_object(n)

\* update() up to its first loop
update_begin(elapsed) ==
    /\ waiting = ""
    /\ tick.pc = "idle"
    /\ ticks < MaxSceneTicks
    /\ clock' = clock + elapsed
    /\ last_update' = clock'
    /\ tick' = [NoTick EXCEPT !.pc = "read", !.i = 1, !.d = time_step(clock')]
    /\ dt' = time_step(clock')
    /\ ticks' = ticks + 1
    /\ UNCHANGED <<objects, physics_params, gravity, position, contacts, considered,
                   position_updated, collider_updated, call, calls, lost>>
    /\ UNCHANGED <<animation_vars, geometry_vars>>

\* the first loop of update() at its next entity, up to the read of obj.position
update_read ==
    /\ tick.pc = "read"
    /\ tick.i <= Len(objects)
    /\ LET name == objects[tick.i]
           params == physics_params[name]
           bounded == [physics_params EXCEPT ![name].bounds = update_bounds(name)]
       IN  IF ~params.enabled
           THEN /\ tick' = [tick EXCEPT !.i = tick.i + 1]
                /\ UNCHANGED <<physics_params, position_updated, contacts, considered,
                               collider_updated, call>>
           ELSE IF ~integrates(params)
           THEN /\ tick' = [tick EXCEPT !.i = tick.i + 1]
                /\ physics_params' = bounded
                /\ UNCHANGED <<position_updated, contacts, considered, collider_updated, call>>
           ELSE IF friction_raises(params)
           THEN /\ tick' = NoTick
                /\ physics_params' = bounded
                /\ position_updated' = tick.sig
                /\ contacts' = {}
                /\ considered' = <<>>
                /\ collider_updated' = <<>>
                /\ call' = Called("update", "", EmptyDict, "ZeroDivisionError")
           ELSE /\ tick' = [tick EXCEPT !.pc = "write", !.read = position[name]]
                /\ physics_params' = bounded
                /\ UNCHANGED <<position_updated, contacts, considered, collider_updated, call>>
    /\ UNCHANGED <<objects, gravity, position, dt, ticks, clock, last_update, calls, lost>>
    /\ UNCHANGED <<animation_vars, geometry_vars>>

\* the first loop of update() from the read of obj.position to its assignment
update_write ==
    /\ tick.pc = "write"
    /\ LET name == objects[tick.i]
       IN  \E new \in {integrated(physics_params[name], tick.read, tick.d)} :
               /\ position' = [position EXCEPT ![name] = new.position]
               /\ physics_params' = [physics_params EXCEPT ![name].velocity = new.velocity]
               /\ tick' = [tick EXCEPT !.pc = "read", !.i = tick.i + 1,
                                       !.sig = Append(tick.sig, <<name, new.position>>)]
               /\ lost' = IF position[name] # tick.read THEN lost \cup {name} ELSE lost
    /\ UNCHANGED <<objects, gravity, dt, contacts, considered, position_updated, collider_updated,
                   call, ticks, clock, last_update, calls>>
    /\ UNCHANGED <<animation_vars, geometry_vars>>

\* the rest of update(): the collision pass and the collider signals
update_finish ==
    /\ tick.pc = "read"
    /\ tick.i > Len(objects)
    /\ \E done \in {_check_collisions(1, 2, [pp |-> physics_params, pos |-> position,
                                            sig |-> tick.sig, exc |-> "none",
                                            hits |-> {}, seen |-> <<>>])} :
           /\ physics_params' = done.pp
           /\ position' = done.pos
           /\ position_updated' = done.sig
           /\ contacts' = done.hits
           /\ considered' = done.seen
           /\ collider_updated' = emitted_colliders(done)
           /\ call' = Called("update", "", EmptyDict, done.exc)
    /\ tick' = NoTick
    /\ UNCHANGED <<objects, gravity, dt, ticks, clock, last_update, calls, lost>>
    /\ UNCHANGED <<animation_vars, geometry_vars>>

SceneNext ==
    \/ \E n \in Names, params \in SceneChoices : scene_set_physics_params(n, params)
    \/ \E elapsed \in SceneElapsed : update_begin(elapsed)
    \/ update_read
    \/ update_write
    \/ update_finish
    \/ \E n \in Names, script \in SceneScripts :
           /\ tick.pc = "idle"
           /\ set_object_script(n, script)
           /\ UNCHANGED <<engine_state, position>>
    \/ \E n \in Names :
           tick.pc = "idle" /\ run_animation(n) /\ UNCHANGED <<engine_state, position>>
    \/ \E n \in Names :
           tick.pc = "idle" /\ stop_animation(n) /\ UNCHANGED <<engine_state, position>>
    \/ wait_returns /\ UNCHANGED <<engine_state, position>>
    \/ \E n \in Names : run(n) /\ UNCHANGED engine_state

\* the scene: the physics timer, the user's calls and the animation threads
SceneSpec == SceneInit /\ [][SceneNext]_vars

----------------------------------------------------------------------------
(* Object3D.calculate_bounding_radius and its cache, for a Mesh3D *)

\* the vertex arrays given to a mesh
VertexChoices ==
    { <<>>,
      << <<1000, 1000, 1000>> >>,
      << <<0, 0, 0>>, <<0, 0, 500>> >>,
      << <<0, 0, 0>>, <<2000, 0, 0>> >>,
      << <<0, 0, 0>>, <<0, 6000, 0>> >>,
      << <<0, 0, -1000>>, <<0, 0, 1000>>, <<0, 0, 0>> >>,
      << <<0, 0, 0>>, <<3000, 0, 0>>, <<0, 3000, 0>> >>,
      << <<-3000, 0, 0>>, <<3000, 0, 0>>, <<0, 4000, 0>>, <<0, -4000, 0>> >> }

RECURSIVE SumColumn(_, _)
\* the sum of the i-th coordinates of the points
SumColumn(points, i) ==
    IF points = <<>> THEN 0 ELSE points[1][i] + SumColumn(Tail(points), i)

\* np.mean(self.vertices, axis=0)
mean(points) ==
    [i \in 1..3 |-> TruncDiv(SumColumn(points, i), Len(points))]

RECURSIVE MaxOf(_)
\* np.max of a non-empty sequence
MaxOf(values) ==
    IF Len(values) = 1 THEN values[1]
    ELSE With(MaxOf(Tail(values)), LAMBDA rest :
             IF values[1] > rest THEN values[1] ELSE rest)

\* the greatest distance from the centroid of the points to one of them
max_distance(points) ==
    With(mean(points), LAMBDA center :
        MaxOf([k \in 1..Len(points) |-> distance(points[k], center)]))

\* the radius of the geometry: 0.5 for no vertex
radius_of(points) == IF Len(points) = 0 THEN One \div 2 ELSE max_distance(points)

\* the test of calculate_bounding_radius for the use of the cached value
cache_is_valid == ~_geometry_changed /\ _cached_bounding_radius # NoRadius

\* Object3D.calculate_bounding_radius
Object3D_calculate_bounding_radius ==
    /\ IF cache_is_valid
       THEN /\ mesh_call' = [op |-> "calculate_bounding_radius",
                             returned |-> _cached_bounding_radius]
            /\ UNCHANGED <<_cached_bounding_radius, _geometry_changed>>
       ELSE IF Len(vertices) = 0
       THEN /\ mesh_call' = [op |-> "calculate_bounding_radius", returned |-> <<One \div 2>>]
            /\ UNCHANGED <<_cached_bounding_radius, _geometry_changed>>
       ELSE \E r \in {max_distance(vertices)} :
                /\ _cached_bounding_radius' = <<r>>
                /\ _geometry_changed' = FALSE
                /\ mesh_call' = [op |-> "calculate_bounding_radius", returned |-> <<r>>]
    /\ UNCHANGED vertices

\* Mesh3D.set_vertices: the assignment and invalidate_cache
set_vertices(new) ==
    /\ vertices' = new
    /\ _cached_bounding_radius' = NoRadius
    /\ _geometry_changed' = TRUE
    /\ mesh_call' = [op |-> "set_vertices", returned |-> NoRadius]

\* ObjectManager.update_geometry with vertices: the assignment alone
update_geometry(new) ==
    /\ vertices' = new
    /\ mesh_call' = [op |-> "update_geometry", returned |-> NoRadius]
    /\ UNCHANGED <<_cached_bounding_radius, _geometry_changed>>

\* everything but the mesh
mesh_frame == <<objects, physics_params, gravity, position, dt, contacts, considered,
                position_updated, collider_updated, call, ticks, clock, last_update, calls,
                animation_vars, tick, lost, ray, shape, small_pair, scene>>

MeshNext ==
    \/ Object3D_calculate_bounding_radius /\ UNCHANGED mesh_frame
    \/ \E new \in VertexChoices : set_vertices(new) /\ UNCHANGED mesh_frame
    \/ \E new \in VertexChoices : update_geometry(new) /\ UNCHANGED mesh_frame

\* one mesh of an idle scene
MeshInit == Init /\ position = [a |-> Zero3, b |-> <<1500, 0, 0>>]

MeshSpec == MeshInit /\ [][MeshNext]_vars

----------------------------------------------------------------------------
(* Sphere3D.ray_intersect *)

\* the rays and the spheres ray_intersect is applied to
RayOrigins ==
    { <<x, y, z>> : x \in {0, 3000}, y \in {0, 4000}, z \in {-5000, 0, 500, 5000} }

RayDirections ==
    { <<0, 0, -1000>>, <<0, 0, 1000>>, <<1000, 0, 0>>, <<0, 0, -2000>>, <<600, 0, -800>> }

RayRadii == { One, 5 * One }

\* np.sqrt of a float
sqrt(x) == Isqrt(x * One)

\* the coefficients of the quadratic and its discriminant
quadratic(origin, direction, center, radius) ==
    LET oc == Sub3(origin, center)
        a == Dot(direction, direction)
        b == 2 * Dot(oc, direction)
        c == Dot(oc, oc) - Mul(radius, radius)
    IN  [a |-> a, b |-> b, discriminant |-> Mul(b, b) - 4 * Mul(a, c)]

\* the root (-b - sqrt(discriminant)) / (2a)
smaller_root(q) == Div(-q.b - sqrt(q.discriminant), 2 * q.a)

\* the root (-b + sqrt(discriminant)) / (2a)
larger_root(q) == Div(-q.b + sqrt(q.discriminant), 2 * q.a)

\* Sphere3D.ray_intersect: <<t>>, or <<>> for None
ray_intersect(origin, direction, center, radius) ==
    With(quadratic(origin, direction, center, radius), LAMBDA q :
        IF q.discriminant < 0 THEN NoRadius
        ELSE With(smaller_root(q), LAMBDA t : IF t > 0 THEN <<t>> ELSE NoRadius))

\* the call of ray_intersect on the ray drawn
cast_ray ==
    /\ ~ray.cast
    /\ ray' = [ray EXCEPT !.cast = TRUE,
                          !.t = ray_intersect(ray.origin, ray.direction,
                                              ray.center, ray.radius)]

\* everything but the ray
ray_frame == <<objects, physics_params, gravity, position, dt, contacts, considered,
               position_updated, collider_updated, call, ticks, clock, last_update, calls,
               animation_vars, tick, lost, mesh_vars, shape, small_pair, scene>>

RayNext == cast_ray /\ UNCHANGED ray_frame

\* a sphere at the origin of an idle scene, and a ray
RayInit ==
    /\ InitScene
    /\ position = [a |-> Zero3, b |-> <<1500, 0, 0>>]
    /\ InitMesh
    /\ shape = NoShape
    /\ small_pair = NoSmallPair
    /\ scene = NoScene
    /\ ray \in { [NoRay EXCEPT !.origin = origin, !.direction = direction,
                               !.radius = radius, !.center = position["a"]] :
                 origin \in RayOrigins, direction \in RayDirections, radius \in RayRadii }

RaySpec == RayInit /\ [][RayNext]_vars

----------------------------------------------------------------------------
(* The shape generators: create_sphere, create_cylinder, create_torus, create_cone.
   Angles are counted in twelfths of pi, which np.linspace(0, pi, resolution) and
   np.linspace(0, 2 * pi, resolution) hit for the resolutions below *)

ShapeKinds == { "sphere", "cylinder", "torus", "cone" }

Resolutions == { 3, 4, 5, 7 }

ShapeRadii == { One, 2 * One }

ShapeCenters == { Zero3, <<1000, -2000, 500>> }

\* the default height of create_cylinder and create_cone
DefaultHeight == 2 * One

\* the default minor_radius of create_torus
DefaultMinorRadius == 300

\* np.sin of 0, pi/12, ..., pi/2
SinTable == <<0, 259, 500, 707, 866, 966, 1000>>

\* np.sin of k * pi / 12
sin(k) ==
    LET m == k % 24
    IN  IF m <= 6 THEN SinTable[m + 1]
        ELSE IF m <= 12 THEN SinTable[12 - m + 1]
        ELSE IF m <= 18 THEN -SinTable[m - 12 + 1]
        ELSE -SinTable[24 - m + 1]

\* np.cos of k * pi / 12
cos(k) == sin(k + 6)

\* the j-th angle, from 0, of np.linspace(0, last, resolution)
linspace(last, resolution, j) == (j * last) \div (resolution - 1)

\* the two triangles of a cell of a grid
quad(p1, p2, p3, p4, second) == IF second THEN <<p1, p4, p3>> ELSE <<p1, p2, p4>>

\* the faces of the double loop of create_sphere and create_torus
grid_faces(resolution) ==
    [k \in 1..(2 * (resolution - 1) * (resolution - 1)) |->
        LET cell == (k - 1) \div 2
            i == cell \div (resolution - 1)
            j == cell % (resolution - 1)
        IN  quad(i * resolution + j, i * resolution + (j + 1),
                 (i + 1) * resolution + j, (i + 1) * resolution + (j + 1),
                 (k - 1) % 2 = 1)]

create_sphere(radius, center, resolution) ==
    [vertices |->
        [idx \in 1..(resolution * resolution) |->
            LET theta == linspace(24, resolution, (idx - 1) \div resolution)
                phi == linspace(12, resolution, (idx - 1) % resolution)
            IN  <<center[1] + Mul(Mul(radius, sin(phi)), cos(theta)),
                  center[2] + Mul(Mul(radius, sin(phi)), sin(theta)),
                  center[3] + Mul(radius, cos(phi))>>],
     faces |-> grid_faces(resolution)]

\* a ring of create_cylinder and create_cone at the height z
ring(radius, center, resolution, z) ==
    [idx \in 1..resolution |->
        LET t == linspace(24, resolution, idx - 1)
        IN  <<center[1] + Mul(radius, cos(t)), center[2] + Mul(radius, sin(t)), z>>]

create_cylinder(radius, height, center, resolution) ==
    [vertices |->
        ring(radius, center, resolution, center[3] + height \div 2)
        \o ring(radius, center, resolution, center[3] - height \div 2)
        \o << <<center[1], center[2], center[3] + height \div 2>>,
              <<center[1], center[2], center[3] - height \div 2>> >>,
     faces |->
        [k \in 1..(2 * (resolution - 1)) |->
            LET i == (k - 1) \div 2
            IN  IF (k - 1) % 2 = 0 THEN <<i, i + 1, i + resolution + 1>>
                ELSE <<i, i + resolution + 1, i + resolution>>]
        \o << <<resolution - 1, 0, resolution>>,
              <<resolution - 1, resolution, 2 * resolution - 1>> >>
        \o [k \in 1..(resolution - 1) |-> <<k - 1, k, 2 * resolution>>]
        \o << <<resolution - 1, 0, 2 * resolution>> >>
        \o [k \in 1..(resolution - 1) |->
               <<k - 1 + resolution, 2 * resolution + 1, k + resolution>>]
        \o << <<2 * resolution - 1, 2 * resolution + 1, resolution>> >>]

create_torus(major_radius, minor_radius, center, resolution) ==
    [vertices |->
        [idx \in 1..(resolution * resolution) |->
            LET v == linspace(24, resolution, (idx - 1) \div resolution)
                u == linspace(24, resolution, (idx - 1) % resolution)
                across == major_radius + Mul(minor_radius, cos(v))
            IN  <<center[1] + Mul(across, cos(u)),
                  center[2] + Mul(across, sin(u)),
                  center[3] + Mul(minor_radius, sin(v))>>],
     faces |->
        grid_faces(resolution)
        \o [k \in 1..(2 * (resolution - 1)) |->
               LET i == (k - 1) \div 2
               IN  quad(i * resolution + (resolution - 1), i * resolution,
                        (i + 1) * resolution + (resolution - 1), (i + 1) * resolution,
                        (k - 1) % 2 = 1)]
        \o [k \in 1..(2 * (resolution - 1)) |->
               LET j == (k - 1) \div 2
               IN  quad((resolution - 1) * resolution + j,
                        (resolution - 1) * resolution + (j + 1), j, j + 1,
                        (k - 1) % 2 = 1)]]

create_cone(radius, height, center, resolution) ==
    [vertices |->
        ring(radius, center, resolution, center[3] - height \div 2)
        \o << <<center[1], center[2], center[3] + height \div 2>>,
              <<center[1], center[2], center[3] - height \div 2>> >>,
     faces |->
        [k \in 1..(resolution - 1) |-> <<k - 1, k, resolution>>]
        \o << <<resolution - 1, 0, resolution>> >>
        \o [k \in 1..(resolution - 1) |-> <<k - 1, resolution + 1, k>>]
        \o << <<resolution - 1, resolution + 1, 0>> >>]

\* the shape with what its generator returned
generated(mesh) ==
    [shape EXCEPT !.created = TRUE, !.vertices = mesh.vertices, !.faces = mesh.faces]

call_create_sphere ==
    /\ shape.kind = "sphere" /\ ~shape.created
    /\ shape' = generated(create_sphere(shape.radius, shape.center, shape.resolution))

call_create_cylinder ==
    /\ shape.kind = "cylinder" /\ ~shape.created
    /\ shape' = generated(create_cylinder(shape.radius, DefaultHeight, shape.center,
                                          shape.resolution))

call_create_torus ==
    /\ shape.kind = "torus" /\ ~shape.created
    /\ shape' = generated(create_torus(shape.radius, DefaultMinorRadius, shape.center,
                                       shape.resolution))

call_create_cone ==
    /\ shape.kind = "cone" /\ ~shape.created
    /\ shape' = generated(create_cone(shape.radius, DefaultHeight, shape.center,
                                      shape.resolution))

\* everything but the shape
shape_frame == <<objects, physics_params, gravity, position, dt, contacts, considered,
                 position_updated, collider_updated, call, ticks, clock, last_update, calls,
                 animation_vars, tick, lost, mesh_vars, ray, small_pair, scene>>

ShapeNext ==
    \/ call_create_sphere /\ UNCHANGED shape_frame
    \/ call_create_cylinder /\ UNCHANGED shape_frame
    \/ call_create_torus /\ UNCHANGED shape_frame
    \/ call_create_cone /\ UNCHANGED shape_frame

\* the arguments of a generator, in an idle scene
ShapeInit ==
    /\ InitScene
    /\ position = [a |-> Zero3, b |-> <<1500, 0, 0>>]
    /\ InitMesh
    /\ ray = NoRay
    /\ small_pair = NoSmallPair
    /\ scene = NoScene
    /\ shape \in { [NoShape EXCEPT !.kind = kind, !.radius = radius,
                                  !.center = center, !.resolution = resolution] :
                   kind \in ShapeKinds, radius \in ShapeRadii,
                   center \in ShapeCenters, resolution \in Resolutions }

ShapeSpec == ShapeInit /\ [][ShapeNext]_vars

----------------------------------------------------------------------------
(* The collision pass over registered entities: _check_collisions applied to
   entities registered with chosen parameters at chosen positions *)

\* the registration orders of the entities
PairOrders == { <<"a", "b">>, <<"b", "a">>, <<"a", "b", "c">> }

\* the params the entities a and b are registered with
PairParams ==
    { [is_static |-> is_static, enabled |-> enabled, mass |-> mass, velocity |-> velocity,
       restitution |-> restitution] :
          is_static \in BOOLEAN, enabled \in BOOLEAN, mass \in {One, 3 * One},
          velocity \in {Zero3, <<1000, 0, 0>>, <<-1000, 0, 0>>},
          restitution \in {500, 800} }

\* where the entity b is, with a at the origin and c at (0, 1.5, 0): on the x
\* axis at 1.5, at 1.98 (a penetration of 1% of the radii), at 1.981, at 2.0, on
\* the z axis at 1.5, at (0.9, 1.2, 0), and at the origin
PairPositions ==
    { <<1500, 0, 0>>, <<1980, 0, 0>>, <<1981, 0, 0>>, <<2000, 0, 0>>,
      <<0, 0, 1500>>, <<900, 1200, 0>>, Zero3 }

\* one call of _check_collisions
check_collisions ==
    /\ calls < MaxPasses
    /\ \E done \in {_check_collisions(1, 2, [pp |-> physics_params, pos |-> position,
                                            sig |-> <<>>, exc |-> "none",
                                            hits |-> {}, seen |-> <<>>])} :
           /\ physics_params' = done.pp
           /\ position' = done.pos
           /\ contacts' = done.hits
           /\ considered' = done.seen
    /\ call' = Called("_check_collisions", "", EmptyDict, "none")
    /\ calls' = calls + 1
    /\ UNCHANGED <<objects, gravity, dt, position_updated, collider_updated, ticks,
                   clock, last_update>>
    /\ UNCHANGED outside_engine

PairNext == check_collisions

\* entities registered with the chosen parameters, at the chosen positions
PairInit ==
    /\ objects \in PairOrders
    /\ gravity = DefaultGravity
    /\ physics_params \in
           { [n \in SeqSet(objects) |->
                 IF n = "a" THEN registered_record(n, pa)
                 ELSE IF n = "b" THEN registered_record(n, pb)
                 ELSE registered_record(n, EmptyDict)] : pa \in PairParams, pb \in PairParams }
    /\ position \in { [n \in {"a", "b", "c"} |->
                          IF n = "a" THEN Zero3
                          ELSE IF n = "b" THEN pos ELSE <<0, 1500, 0>>] :
                      pos \in PairPositions }
    /\ dt = 0
    /\ contacts = {}
    /\ considered = <<>>
    /\ position_updated = <<>>
    /\ collider_updated = <<>>
    /\ call = NoCall
    /\ ticks = 0
    /\ clock = 0
    /\ last_update = 0
    /\ calls = 0
    /\ animation_scripts = EmptyDict
    /\ animation_threads = EmptyDict
    /\ waiting = ""
    /\ tick = NoTick
    /\ lost = {}
    /\ InitMesh
    /\ ray = NoRay
    /\ shape = NoShape
    /\ small_pair = NoSmallPair
    /\ scene = NoScene

PairSpec == PairInit /\ [][PairNext]_vars

----------------------------------------------------------------------------
(* _check_collision and the positional correction of _handle_collision for two
   small entities, enabled and not both static, on the x axis. Lengths are in
   millionths, so that penetrations below 0.001 can be told apart *)

Micro == 1000000

\* _check_collision for the pair
small_check_collision(pair) ==
    LET dist == Abs(pair.x1 - pair.x2)
        penetration == (pair.size1 + pair.size2) - dist
        min_penetration == TruncDiv((pair.size1 + pair.size2) * 10000, Micro)
    IN  IF penetration < min_penetration THEN FALSE
        ELSE dist < (pair.size1 + pair.size2)

\* a variant with the two shares exchanged
small_ratios_exchanged(pair) ==
    IF ~pair.static1 /\ ~pair.static2
    THEN <<TruncDiv(pair.m1 * Micro, pair.m1 + pair.m2),
           TruncDiv(pair.m2 * Micro, pair.m1 + pair.m2)>>
    ELSE IF pair.static1 THEN <<0, Micro>>
    ELSE <<Micro, 0>>

\* ratio1 and ratio2 of _handle_collision
small_ratios(pair) ==
    IF ~pair.static1 /\ ~pair.static2
    THEN <<TruncDiv(pair.m2 * Micro, pair.m1 + pair.m2),
           TruncDiv(pair.m1 * Micro, pair.m1 + pair.m2)>>
    ELSE IF pair.static1 THEN <<0, Micro>>
    ELSE <<Micro, 0>>

\* _handle_collision for the pair, up to the positional correction: the two
\* positions it leaves
small_handle_collision(pair) ==
    LET direction == pair.x2 - pair.x1
        length == Abs(direction)
        penetration == (pair.size1 + pair.size2) - length
        ratio == small_ratios(pair)
    IN  IF length = 0 THEN <<pair.x1, pair.x2>>
        ELSE IF penetration < 1000 THEN <<pair.x1, pair.x2>>
        ELSE LET normal == IF direction > 0 THEN Micro ELSE -Micro  \* direction / length
                 push == TruncDiv(normal * penetration, Micro)
             IN  <<IF pair.static1 THEN pair.x1
                   ELSE pair.x1 - TruncDiv(push * ratio[1], Micro),
                   IF pair.static2 THEN pair.x2
                   ELSE pair.x2 + TruncDiv(push * ratio[2], Micro)>>

\* the step of _check_collisions for the pair
check_small_pair ==
    /\ ~small_pair.done
    /\ \E reported \in {small_check_collision(small_pair)} :
       \E after \in {IF reported THEN small_handle_collision(small_pair)
                                 ELSE <<small_pair.x1, small_pair.x2>>} :
           small_pair' = [small_pair EXCEPT !.done = TRUE, !.reported = reported,
                                            !.after1 = after[1], !.after2 = after[2]]

\* everything but the small pair
small_frame == <<objects, physics_params, gravity, position, dt, contacts, considered,
                 position_updated, collider_updated, call, ticks, clock, last_update, calls,
                 animation_vars, tick, lost, mesh_vars, ray, shape, scene>>

SmallNext == check_small_pair /\ UNCHANGED small_frame

\* two small entities of bounding radii 0.02 or 0.04 and masses 1 or 3, the
\* first at the origin, the second on either side of it or (side 0) at the same
\* place, from 0.001 apart to 0.002 deep
SmallInit ==
    /\ InitScene
    /\ position = [a |-> Zero3, b |-> <<1500, 0, 0>>]
    /\ InitMesh
    /\ ray = NoRay
    /\ shape = NoShape
    /\ scene = NoScene
    /\ small_pair \in
           { [NoSmallPair EXCEPT !.size1 = size1, !.size2 = size2,
                                 !.x2 = side * (size1 + size2 - depth),
                                 !.m1 = m1, !.m2 = m2,
                                 !.static1 = static[1], !.static2 = static[2]] :
                 size1 \in {20000, 40000}, size2 \in {20000, 40000}, side \in {1, -1, 0},
                 depth \in {-1000, 0, 400, 800, 2000},
                 m1 \in {1, 3}, m2 \in {1, 3},
                 static \in {<<FALSE, FALSE>>, <<TRUE, FALSE>>, <<FALSE, TRUE>>} }

SmallSpec == SmallInit /\ [][SmallNext]_vars

----------------------------------------------------------------------------
(* SceneManager: the objects of the scene and the entities of the engine *)

\* the objects created while the scene lives, at most
MaxCreated == 4

\* add_mesh, add_points, add_line: a new object under the name
add_object(n, kind) ==
    /\ scene.created < MaxCreated
    /\ scene' = [scene EXCEPT
                     !.created = scene.created + 1,
                     !.objects = DictUpdate(scene.objects,
                                     [k \in {n} |-> [id |-> scene.created + 1, kind |-> kind]])]

\* SceneManager.remove_object
remove_object(n) ==
    scene' = [scene EXCEPT !.physics_objects = DictPop(scene.physics_objects, n),
                           !.objects = DictPop(scene.objects, n)]

\* SceneManager.clear
clear ==
    scene' = [scene EXCEPT
                  !.physics_objects =
                      [k \in DOMAIN scene.physics_objects \ DOMAIN scene.objects |->
                           scene.physics_objects[k]],
                  !.objects = EmptyDict]

\* SceneManager.set_physics_params
manager_set_physics_params(n, params) ==
    scene' = IF n \in DOMAIN scene.objects
             THEN IF "enabled" \in DOMAIN params /\ params.enabled
                  THEN [scene EXCEPT !.physics_objects =
                            DictUpdate(scene.physics_objects, [k \in {n} |-> scene.objects[n]])]
                  ELSE [scene EXCEPT !.physics_objects = DictPop(scene.physics_objects, n)]
             ELSE scene

\* everything but the objects of the scene
manager_frame == <<objects, physics_params, gravity, position, dt, contacts, considered,
                   position_updated, collider_updated, call, ticks, clock, last_update, calls,
                   animation_vars, tick, lost, mesh_vars, ray, shape, small_pair>>

\* add_mesh, add_points and add_line construct a Mesh3D, a Points3D and a
\* Line3D; set_physics_params is given enabled true, enabled false, or no enabled
ManagerNext ==
    \/ \E n \in Names, kind \in {"Mesh3D", "Points3D", "Line3D"} :
           add_object(n, kind) /\ UNCHANGED manager_frame
    \/ \E n \in Names : remove_object(n) /\ UNCHANGED manager_frame
    \/ clear /\ UNCHANGED manager_frame
    \/ \E n \in Names, params \in {[enabled |-> TRUE], [enabled |-> FALSE], [mass |-> 2000]} :
           manager_set_physics_params(n, params) /\ UNCHANGED manager_frame

ManagerSpec == Init /\ [][ManagerNext]_vars

----------------------------------------------------------------------------
(* The specification *)

Next ==
    \/ \E n \in Names, params \in RegisterChoices : register_object(n, params)
    \/ \E n \in Names : unregister_object(n)
    \/ \E n \in Names, params \in SetChoices : set_physics_params(n, params)
    \/ \E g \in GravityChoices : set_gravity(g)
    \/ \E elapsed \in ElapsedChoices : update(elapsed)

Spec == Init /\ [][Next]_vars

----------------------------------------------------------------------------
(* Properties *)

\* the pairs of the most recent collision pass that hold the entity
in_contact(n, hits) == \E p \in hits : p[1] = n \/ p[2] = n

\* C1: an update() leaves the position of every entity that is registered,
\* enabled and static exactly where it was, whatever the gravity, the time step
\* and the dynamic entities that overlap it
C1_StaticNeverMoves ==
    [][ticks' = ticks + 1 =>
          \A n \in DOMAIN physics_params :
              (physics_params[n].enabled /\ physics_params[n].is_static)
                  => position'[n] = position[n]]_vars

\* an update() in which a static entity was in a collision with an entity that
\* the collision moved
C1_Witness ==
    /\ call.op = "update"
    /\ \E p \in contacts :
           /\ physics_params[p[1]].is_static
           /\ physics_params[p[1]].enabled
           /\ ~physics_params[p[2]].is_static
           /\ distance(position[p[1]], position[p[2]]) >= 2 * One - 2

\* C2: the names of objects are the names of physics_params, after every
\* sequence of calls
C2_SameKeys == SeqSet(objects) = DOMAIN physics_params

\* an unregister_object that removed one of two registered entities
C2_Witness ==
    /\ call.op = "unregister_object"
    /\ call.hit
    /\ Len(objects) = 1
    /\ ticks > 0

\* C3: unregister_object raises nothing and leaves the name in neither objects
\* nor physics_params, so that get_physics_params returns None; the records of
\* the other entities stay as they were, and when the name was not registered
\* (as in a second call) the whole state of the engine stays as it was
C3_UnregisterIdempotent ==
    [][\A n \in Names :
          (call'.op = "unregister_object" /\ call'.name = n /\ calls' = calls + 1) =>
              /\ call'.exc = "none"
              /\ n \notin SeqSet(objects')
              /\ n \notin DOMAIN physics_params'
              /\ get_physics_params(n)' = None
              /\ objects' = SeqRemove(objects, n)
              /\ \A m \in (DOMAIN physics_params) \ {n} :
                     /\ m \in DOMAIN physics_params'
                     /\ physics_params'[m] = physics_params[m]
              /\ n \notin DOMAIN physics_params =>
                     UNCHANGED <<objects, physics_params, gravity, position>>]_vars

\* a second unregister_object of a name, right after the one that removed it
C3_Witness ==
    /\ call.op = "unregister_object"
    /\ call.repeat
    /\ ~call.hit
    /\ get_physics_params(call.name) = None

\* C4: the record register_object stores holds the given value under every key
\* of params, the default under every other key (enabled true, mass 1.0, velocity
\* zero, acceleration the current gravity, is_static false, restitution 0.5,
\* friction 0.3), and a collider_data that holds the override's keys over the
\* default collider_data, whose other keys are kept
C4_RegisterMerges ==
    call.op = "register_object" =>
        LET n == call.name
            params == call.params
            stored == physics_params[n]
            defaults == [enabled |-> TRUE, mass |-> 1000, velocity |-> <<0, 0, 0>>,
                         acceleration |-> gravity, is_static |-> FALSE,
                         restitution |-> 500, friction |-> 300]
            collider_defaults == [radius |-> calculate_bounding_radius(n),
                                  bounds |-> update_bounds(n),
                                  height |-> 2 * calculate_bounding_radius(n),
                                  radius_cylinder |-> calculate_bounding_radius(n) \div 2]
            override == IF "collider_data" \in DOMAIN params
                        THEN params.collider_data ELSE EmptyDict
        IN  /\ call.exc = "none"
            /\ n \in SeqSet(objects)
            /\ \A k \in (DOMAIN params) \ {"collider_data"} : stored[k] = params[k]
            /\ \A k \in (DOMAIN defaults) \ (DOMAIN params) : stored[k] = defaults[k]
            /\ \A k \in DOMAIN override : stored.collider_data[k] = override[k]
            /\ \A k \in (DOMAIN collider_defaults) \ (DOMAIN override) :
                   /\ k \in DOMAIN stored.collider_data
                   /\ stored.collider_data[k] = collider_defaults[k]

\* a register_object with overrides of some keys and of one key of
\* collider_data, under a gravity that is not the initial one
C4_Witness ==
    /\ call.op = "register_object"
    /\ "collider_data" \in DOMAIN call.params
    /\ "velocity" \in DOMAIN call.params
    /\ gravity # DefaultGravity
    /\ physics_params[call.name].collider_data.radius = 2000
    /\ physics_params[call.name].mass = One

\* C5: set_physics_params of a registered name gives exactly the fields it
\* names their new values and leaves the other fields of the record, the other
\* records and the registry as they were; of a name that is not registered it
\* changes nothing and creates no record
C5_SetMerges ==
    [][\A n \in Names :
          (call'.op = "set_physics_params" /\ call'.name = n /\ calls' = calls + 1) =>
              /\ call'.exc = "none"
              /\ UNCHANGED <<objects, gravity, position>>
              /\ DOMAIN physics_params' = DOMAIN physics_params
              /\ \A m \in (DOMAIN physics_params) \ {n} :
                     physics_params'[m] = physics_params[m]
              /\ n \in DOMAIN physics_params =>
                     /\ DOMAIN physics_params'[n]
                            = (DOMAIN physics_params[n]) \cup (DOMAIN call'.params)
                     /\ \A k \in DOMAIN call'.params :
                            physics_params'[n][k] = call'.params[k]
                     /\ \A k \in (DOMAIN physics_params[n]) \ (DOMAIN call'.params) :
                            physics_params'[n][k] = physics_params[n][k]
              /\ n \notin DOMAIN physics_params => physics_params' = physics_params]_vars

\* a set_physics_params of one of two registered entities
C5_Witness ==
    /\ call.op = "set_physics_params"
    /\ call.hit
    /\ Len(objects) = 2
    /\ physics_params[call.name].friction = 0
    /\ physics_params[call.name].mass = One

\* C6: for a name that is not registered get_physics_params returns None and
\* is_physics_enabled returns False; for a registered name is_physics_enabled
\* returns the enabled flag of the record
C6_Lookups ==
    \A n \in Names :
        /\ n \notin DOMAIN physics_params =>
               /\ get_physics_params(n) = None
               /\ is_physics_enabled(n) = FALSE
        /\ n \in DOMAIN physics_params =>
               /\ get_physics_params(n) = physics_params[n]
               /\ is_physics_enabled(n) = physics_params[n].enabled

\* one entity registered with physics disabled, and one name not registered
C6_Witness ==
    /\ \E n \in DOMAIN physics_params : ~physics_params[n].enabled
    /\ \E n \in Names : n \notin DOMAIN physics_params /\ get_physics_params(n) = None

\* whether the most recent update() integrated the entity
was_integrated(n, signals) == \E i \in 1..Len(signals) : signals[i][1] = n

\* C7: an update() leaves an enabled dynamic entity that is in no contact, and
\* was at a height of 0 or more, at a height of 0 or more; when the integration
\* of the tick takes it below 0 its height is exactly 0 and its vertical velocity
\* is minus the integrated vertical velocity times its restitution
C7_GroundClamp ==
    [][ticks' = ticks + 1 =>
          \A n \in DOMAIN physics_params :
              (/\ physics_params[n].enabled
               /\ ~physics_params[n].is_static
               /\ ~in_contact(n, contacts')) =>
                  /\ position[n][3] >= 0 => position'[n][3] >= 0
                  /\ was_integrated(n, position_updated') =>
                         \A v \in {integrated_velocity(physics_params[n], dt')} :
                         \A pos \in {integrated_position(position[n], v, dt')} :
                             /\ position'[n][3] >= 0
                             /\ pos[3] < 0 =>
                                    /\ position'[n] = <<pos[1], pos[2], 0>>
                                    /\ physics_params'[n].velocity
                                           = <<v[1], v[2],
                                               Mul(-v[3], physics_params[n].restitution)>>
                             /\ pos[3] >= 0 =>
                                    /\ position'[n] = pos
                                    /\ physics_params'[n].velocity = v]_vars

\* the first update() of the entity that started at the height 0.05, alone: it
\* is on the ground and its vertical velocity points up
C7_Witness ==
    /\ ticks = 1
    /\ call.op = "update"
    /\ call.exc = "none"
    /\ contacts = {}
    /\ "b" \in DOMAIN physics_params
    /\ physics_params["b"].enabled
    /\ ~physics_params["b"].is_static
    /\ position["a"] = Zero3
    /\ position["b"] = Zero3
    /\ physics_params["b"].velocity[3] > 0

\* C8: for an enabled dynamic entity with zero acceleration and friction > 0
\* that is in no contact, an update() does not increase the magnitude of the
\* velocity nor of any of its components, it stores no component with the sign
\* reversed (but for the vertical one of an entity it put on the ground), a
\* magnitude computed below velocity_threshold is stored as exactly (0,0,0), and
\* a velocity of (0,0,0) stays (0,0,0)
C8_FrictionDecay ==
    [][ticks' = ticks + 1 =>
          \A n \in DOMAIN physics_params :
              (/\ physics_params[n].enabled
               /\ ~physics_params[n].is_static
               /\ physics_params[n].acceleration = Zero3
               /\ physics_params[n].friction > 0
               /\ ~in_contact(n, contacts')
               /\ was_integrated(n, position_updated')) =>
                  \A slowed \in {friction_velocity(physics_params[n], dt')} :
                      LET v == physics_params[n].velocity
                          w == physics_params'[n].velocity
                          computed == accelerated_velocity(slowed, Zero3, dt')
                      IN  /\ SumSq(w) <= SumSq(v)
                          /\ SumSq(slowed) <= SumSq(v)
                          /\ \A i \in 1..3 : Abs(w[i]) <= Abs(v[i])
                          /\ \A i \in 1..3 :
                                 \/ w[i] * v[i] >= 0
                                 \/ i = 3 /\ position'[n][3] = 0
                          /\ SumSq(computed) < velocity_threshold * velocity_threshold
                                 => w = Zero3
                          /\ v = Zero3 => w = Zero3]_vars

\* a sliding entity that moved in its first update() and has the velocity
\* (0,0,0) after its second
C8_Witness ==
    /\ ticks = 2
    /\ call.op = "update"
    /\ \E n \in DOMAIN physics_params :
           /\ physics_params[n].enabled
           /\ ~physics_params[n].is_static
           /\ physics_params[n].acceleration = Zero3
           /\ physics_params[n].friction > 0
           /\ ~in_contact(n, contacts)
           /\ was_integrated(n, position_updated)
           /\ physics_params[n].velocity = Zero3
           /\ position[n][2] > 0

\* the scene of C9: two enabled dynamic spheres of equal mass and radius 1, the
\* centres 1.5 apart, zero velocity, restitution 0.5
two_spheres ==
    /\ DOMAIN physics_params = {"a", "b"}
    /\ \A n \in {"a", "b"} :
           /\ physics_params[n].enabled
           /\ ~physics_params[n].is_static
           /\ physics_params[n].velocity = Zero3
           /\ physics_params[n].restitution = 500
           /\ calculate_bounding_radius(n) = One
    /\ physics_params["a"].mass = physics_params["b"].mass
    /\ distance(position["a"], position["b"]) = 1500

\* C9 as stated: one update() of the two spheres leaves the centres more than
\* 1.5 apart and the velocities with non-zero components along the
\* centre-to-centre normal, equal in magnitude and opposite in sign
C9_OppositeVelocities ==
    [][(two_spheres /\ ticks' = ticks + 1) =>
          LET direction == Sub3(position'["b"], position'["a"])
              normal == collision_normal(direction, Norm(direction))
              along1 == Dot(physics_params'["a"].velocity, normal)
              along2 == Dot(physics_params'["b"].velocity, normal)
          IN  /\ distance(position'["a"], position'["b"]) > 1500
              /\ along1 # 0
              /\ along2 # 0
              /\ along1 = -along2]_vars

\* C9, amended: one update() of the two spheres, at the same height and with the
\* same acceleration, leaves the centres more than 1.5 apart and the two
\* velocities equal: the relative velocity along the normal is zero and the
\* impulse adds nothing
C9_EqualVelocities ==
    [][(/\ two_spheres
        /\ position["a"][3] = position["b"][3]
        /\ physics_params["a"].acceleration = physics_params["b"].acceleration
        /\ ticks' = ticks + 1) =>
          LET direction == Sub3(position'["b"], position'["a"])
              normal == collision_normal(direction, Norm(direction))
          IN  /\ call'.exc = "none"
              /\ distance(position'["a"], position'["b"]) > 1500
              /\ physics_params'["a"].velocity = physics_params'["b"].velocity
              /\ Dot(Sub3(physics_params'["a"].velocity,
                          physics_params'["b"].velocity), normal) = 0]_vars

\* the two spheres after their first update() under gravity: in contact, pushed
\* to 2.0 apart, both with the velocity of the bounce off the ground
C9_Witness ==
    /\ ticks = 1
    /\ call.op = "update"
    /\ contacts = {<<"a", "b">>}
    /\ DOMAIN physics_params = {"a", "b"}
    /\ distance(position["a"], position["b"]) = 2 * One
    /\ physics_params["a"].velocity = physics_params["b"].velocity
    /\ physics_params["a"].velocity[3] > 0
    /\ physics_params["a"].velocity[1] = 0

\* C10: set_gravity(g), called while entities are registered, raises nothing,
\* leaves g as the acceleration of every registered entity that is not static
\* and leaves the acceleration of every static entity as it was
C10_SetGravityRewrites ==
    [][(call'.op = "set_gravity" /\ calls' = calls + 1 /\ Len(objects) > 0) =>
          /\ call'.exc = "none"
          /\ \A n \in DOMAIN physics_params :
                 /\ n \in DOMAIN physics_params'
                 /\ physics_params'[n].acceleration
                        = IF physics_params[n].is_static
                          THEN physics_params[n].acceleration
                          ELSE gravity']_vars

\* C11: set_gravity(g) leaves g as the gravity of the engine and nothing else
\* changes the gravity; register_object without an acceleration override stores
\* the gravity of that moment as the acceleration; a later set_gravity leaves
\* the acceleration of every record as it was, or, for an entity that is not
\* static, as the new gravity
C11_GravityAtRegistration ==
    [][/\ (call'.op = "set_gravity" /\ calls' = calls + 1) =>
              /\ gravity' = call'.params.gravity
              /\ \A n \in DOMAIN physics_params :
                     /\ n \in DOMAIN physics_params'
                     /\ \/ physics_params'[n].acceleration = physics_params[n].acceleration
                        \/ /\ ~physics_params[n].is_static
                           /\ physics_params'[n].acceleration = gravity'
       /\ (/\ call'.op = "register_object"
           /\ calls' = calls + 1
           /\ "acceleration" \notin DOMAIN call'.params) =>
              /\ gravity' = gravity
              /\ physics_params'[call'.name].acceleration = gravity
       /\ gravity' # gravity => call'.op = "set_gravity"]_vars

\* an entity registered under a gravity that set_gravity had set, after a later
\* set_gravity to another value
C11_Witness ==
    /\ call.op = "set_gravity"
    /\ gravity = call.params.gravity
    /\ \E n \in DOMAIN physics_params :
           /\ physics_params[n].acceleration # DefaultGravity
           /\ physics_params[n].acceleration # gravity
           /\ physics_params[n].acceleration \in GravityChoices
           /\ physics_params[n].velocity = Zero3

\* whether every record satisfies the data model: mass > 0, friction >= 0,
\* restitution in [0,1]
data_model ==
    \A n \in DOMAIN physics_params :
        /\ physics_params[n].mass > 0
        /\ physics_params[n].friction >= 0
        /\ physics_params[n].restitution >= 0
        /\ physics_params[n].restitution <= One

\* C12: update() never raises, whatever the records (within the data model,
\* friction = 0 included), the positions and the velocities
C12_UpdateNeverRaises ==
    (call.op = "update" /\ data_model) => call.exc = "none"

\* the places of the entity's signals in a sequence of signals
signals_of(n, signals) == {i \in 1..Len(signals) : signals[i][1] = n}

\* what C13 asks of the collider_updated signals of an update()
colliders_as_specified ==
    /\ Len(collider_updated) = Len(objects)
    /\ \A n \in DOMAIN physics_params :
           /\ Cardinality(signals_of(n, collider_updated)) = 1
           /\ \A i \in signals_of(n, collider_updated) :
                  /\ (collider_updated[i][2] = None) = ~physics_params[n].enabled
                  /\ physics_params[n].enabled =>
                         /\ "center" \in DOMAIN collider_updated[i][2]
                         /\ collider_updated[i][2].center = position[n]

\* C13: an update() emits collider_updated exactly once for every registered
\* entity, with None exactly when the record has enabled = false and otherwise
\* with a descriptor whose center is the position at the end of the tick
C13_ColliderSignals == call.op = "update" => colliders_as_specified

\* what C14 asks of the object_position_updated signals of an update()
positions_as_specified ==
    \A n \in DOMAIN physics_params :
        IF physics_params[n].enabled /\ ~physics_params[n].is_static
        THEN /\ Cardinality(signals_of(n, position_updated)) = 1
             /\ \A i \in signals_of(n, position_updated) :
                    in_contact(n, contacts) \/ position_updated[i][2] = position[n]
        ELSE signals_of(n, position_updated) = {}

\* C14: an update() emits object_position_updated exactly once for every
\* entity that is enabled and not static, with its position after the
\* integration, and for no other entity
C14_PositionSignals == call.op = "update" => positions_as_specified

\* C15: an update() leaves an entity whose record has enabled = false
\* registered, with its position and its whole record (velocity and bounds
\* included) as they were, and in no collision; an entity beside which every
\* other entity is disabled ends the update() exactly where its integration put
\* it, with the velocity of its integration
C15_DisabledSkipped ==
    [][ticks' = ticks + 1 =>
          /\ \A n \in DOMAIN physics_params :
                 ~physics_params[n].enabled =>
                     /\ n \in SeqSet(objects')
                     /\ n \in DOMAIN physics_params'
                     /\ physics_params'[n] = physics_params[n]
                     /\ position'[n] = position[n]
                     /\ ~in_contact(n, contacts')
                     /\ signals_of(n, position_updated') = {}
          /\ \A m \in DOMAIN physics_params :
                 (/\ was_integrated(m, position_updated')
                  /\ \A n \in (DOMAIN physics_params) \ {m} : ~physics_params[n].enabled) =>
                     \A new \in {integrated(physics_params[m], position[m], dt')} :
                         /\ position'[m] = new.position
                         /\ physics_params'[m].velocity = new.velocity]_vars

\* an update() of a dynamic entity that overlaps a disabled entity
C15_Witness ==
    /\ call.op = "update"
    /\ call.exc = "none"
    /\ contacts = {}
    /\ \E n, m \in DOMAIN physics_params :
           /\ ~physics_params[n].enabled
           /\ physics_params[m].enabled
           /\ ~physics_params[m].is_static
           /\ was_integrated(m, position_updated)
           /\ distance(position[n], position[m]) > 0
           /\ distance(position[n], position[m]) < 2 * One - 20

\* C20: once stop() was called on a thread that was started, the thread
\* eventually leaves run(), so that wait() returns, whatever the order of
\* start(), the beginning of run() and stop(); and a thread whose script raised
\* has emitted error_occurred, has running false and has left the loop
C20_StopTerminates ==
    /\ \A n \in Names :
           (n \in DOMAIN animation_threads /\ animation_threads[n].stop_called)
               ~> (n \in DOMAIN animation_threads /\ animation_threads[n].pc = "finished")
    /\ [](\A n \in DOMAIN animation_threads :
              animation_threads[n].error_occurred =>
                  ~animation_threads[n].running /\ animation_threads[n].pc = "finished")

\* C16: no entity is at the same time registered and enabled in the physics
\* engine and written by a running animation thread, and update() never
\* overwrites a position an animation thread wrote after update() read it
C16_PhysicsOrScript ==
    /\ \A n \in Names :
           ~(/\ is_physics_enabled(n)
             /\ n \in DOMAIN animation_threads
             /\ animation_threads[n].pc = "loop"
             /\ animation_threads[n].running)
    /\ lost = {}

\* C17: whatever geometry replacements and calls came before, a call of
\* calculate_bounding_radius returns the greatest distance from the centroid of
\* the current vertices to one of them, and 0.5 for a mesh without vertices
C17_RadiusNeverStale ==
    mesh_call.op = "calculate_bounding_radius" => mesh_call.returned = <<radius_of(vertices)>>

\* the smaller positive root of the quadratic of a ray, <<>> when the
\* discriminant is negative or no root is positive
smaller_positive_root(q) ==
    IF q.discriminant < 0 THEN <<>>
    ELSE IF smaller_root(q) > 0 THEN <<smaller_root(q)>>
    ELSE IF larger_root(q) > 0 THEN <<larger_root(q)>>
    ELSE <<>>

\* C19: ray_intersect returns the smaller positive root of the quadratic, and
\* None exactly when the discriminant is negative or both roots are
\* non-positive: the entry distance from outside, the positive root when one root
\* is negative and the other positive
C19_SmallerPositiveRoot ==
    ray.cast =>
        ray.t = smaller_positive_root(quadratic(ray.origin, ray.direction,
                                                ray.center, ray.radius))

\* the cross product of two vectors of integers
Cross(u, v) ==
    <<u[2] * v[3] - u[3] * v[2], u[3] * v[1] - u[1] * v[3], u[1] * v[2] - u[2] * v[1]>>

\* whether three points lie on one line; two equal points do
collinear(p, q, r) == Cross(Sub3(p, q), Sub3(p, r)) = Zero3

\* whether the face indexes three vertices of the mesh
indexes_vertices(face, points) == \A k \in 1..3 : 0 <= face[k] /\ face[k] < Len(points)

\* C18: every face a shape generator returns is a triple of indices into the
\* vertices it returns, and its three vertices are not collinear
C18_FacesAreTriangles ==
    shape.created =>
        \A f \in 1..Len(shape.faces) :
            /\ indexes_vertices(shape.faces[f], shape.vertices)
            /\ ~collinear(shape.vertices[shape.faces[f][1] + 1],
                          shape.vertices[shape.faces[f][2] + 1],
                          shape.vertices[shape.faces[f][3] + 1])

\* the fields of a record that update() has no business with
kept_fields == {"enabled", "is_static", "mass", "restitution", "friction",
                "acceleration", "collider_type", "collider_data"}

\* C21: an update() leaves the registered names as they were and, in every
\* record, the fields enabled, is_static, mass, restitution, friction,
\* acceleration, collider_type and collider_data; it may change the position,
\* the velocity and the bounds only
C21_UpdateFrame ==
    [][ticks' = ticks + 1 =>
          /\ objects' = objects
          /\ DOMAIN physics_params' = DOMAIN physics_params
          /\ \A n \in DOMAIN physics_params :
                 /\ DOMAIN physics_params'[n] = DOMAIN physics_params[n]
                 /\ \A k \in kept_fields : physics_params'[n][k] = physics_params[n][k]]_vars

\* an update() that resolved a collision and left an entity at rest and
\* another one moving
C21_Witness ==
    /\ call.op = "update"
    /\ call.exc = "none"
    /\ contacts # {}
    /\ \E n \in DOMAIN physics_params :
           physics_params[n].enabled /\ physics_params[n].velocity = Zero3
    /\ \E n \in DOMAIN physics_params :
           physics_params[n].enabled /\ physics_params[n].velocity # Zero3

\* whether the collision pass must leave the pair alone: both static, or one
\* of them disabled
left_alone(n1, n2) ==
    \/ physics_params[n1].is_static /\ physics_params[n2].is_static
    \/ ~physics_params[n1].enabled
    \/ ~physics_params[n2].enabled

\* C22: a collision pass calls _check_collision once for every unordered pair
\* of registered entities and for nothing else; it resolves no pair of two
\* static entities and no pair with a disabled entity, and an entity that has
\* only such pairs keeps its position and its velocity
C22_PairsOnce ==
    [][calls' = calls + 1 =>
          /\ 2 * Len(considered') = Len(objects) * (Len(objects) - 1)
          /\ \A i, j \in 1..Len(objects) :
                 i < j =>
                     Cardinality({k \in 1..Len(considered') :
                                     considered'[k] \in {<<objects[i], objects[j]>>,
                                                         <<objects[j], objects[i]>>}}) = 1
          /\ \A p \in contacts' : ~left_alone(p[1], p[2])
          /\ \A n \in SeqSet(objects) :
                 (\A m \in SeqSet(objects) \ {n} : left_alone(n, m)) =>
                     /\ position'[n] = position[n]
                     /\ physics_params'[n].velocity = physics_params[n].velocity]_vars

\* a pass over three entities that resolved the pair of b and c and left the
\* disabled entity a, which overlaps c, alone
C22_Witness ==
    /\ call.op = "_check_collisions"
    /\ Len(objects) = 3
    /\ Len(considered) = 3
    /\ ~physics_params["a"].enabled
    /\ distance(position["a"], position["c"]) < 2 * One
    /\ <<"b", "c">> \in contacts
    /\ <<"a", "c">> \notin contacts

\* the sum of the bounding radii of the two entities
radii(n1, n2) == calculate_bounding_radius(n1) + calculate_bounding_radius(n2)

\* the penetration depth of the two entities where they are
penetration_of(n1, n2) == radii(n1, n2) - distance(position[n1], position[n2])

\* the pair of a pass over two entities, enabled and not both static
two_entities ==
    /\ Len(objects) = 2
    /\ ~left_alone(objects[1], objects[2])

\* whether the step is a pass that leaves the positions and the velocities
untouched ==
    /\ position' = position
    /\ \A n \in SeqSet(objects) : physics_params'[n].velocity = physics_params[n].velocity

small_penetration ==
    (small_pair.size1 + small_pair.size2) - Abs(small_pair.x1 - small_pair.x2)

\* the positional correction of the claim: each entity moved away from the
\* other along the x axis, a static one by nothing and its partner by the whole
\* penetration, two dynamic ones by the shares m2/(m1+m2) and m1/(m1+m2) of it,
\* which leaves the centres the sum of the radii apart
small_pair_corrected ==
    LET side == IF small_pair.x2 > small_pair.x1 THEN 1 ELSE -1
        whole == small_penetration
        share1 == IF small_pair.static1 THEN 0
                  ELSE IF small_pair.static2 THEN whole
                  ELSE (whole * small_pair.m2) \div (small_pair.m1 + small_pair.m2)
        share2 == IF small_pair.static2 THEN 0
                  ELSE IF small_pair.static1 THEN whole
                  ELSE (whole * small_pair.m1) \div (small_pair.m1 + small_pair.m2)
    IN  /\ small_pair.after1 = small_pair.x1 - side * share1
        /\ small_pair.after2 = small_pair.x2 + side * share2
        /\ Abs(small_pair.after2 - small_pair.after1) = small_pair.size1 + small_pair.size2

\* C24 as stated: whenever _check_collision reports a pair with distinct
\* centres, the positional correction is applied
C24_CorrectedToRadii ==
    (small_pair.done /\ small_pair.reported /\ small_pair.x1 # small_pair.x2)
        => small_pair_corrected

\* C24, amended: whenever _check_collision reports a pair with distinct centres
\* and the penetration is at least 0.001, the positional correction is applied;
\* a reported pair with a smaller penetration stays where it is
C24_CorrectedFromOneThousandth ==
    (small_pair.done /\ small_pair.reported /\ small_pair.x1 # small_pair.x2) =>
        IF small_penetration >= 1000
        THEN small_pair_corrected
        ELSE small_pair.after1 = small_pair.x1 /\ small_pair.after2 = small_pair.x2

\* two dynamic entities of masses 1 and 3, 0.002 deep, corrected
C24_Witness ==
    /\ small_pair.done
    /\ small_pair.reported
    /\ small_penetration = 2000
    /\ ~small_pair.static1
    /\ ~small_pair.static2
    /\ small_pair.m1 = 1
    /\ small_pair.m2 = 3
    /\ small_pair.after1 # small_pair.x1

\* how fast the two entities move apart along the normal from n1 to n2, where
\* they are: positive when they separate, negative when they approach
separation_speed(n1, n2) ==
    LET direction == Sub3(position[n2], position[n1])
    IN  Dot(Sub3(physics_params[n2].velocity, physics_params[n1].velocity),
            collision_normal(direction, Norm(direction)))

\* whether the step leaves every velocity as it was
velocities_kept ==
    \A n \in SeqSet(objects) : physics_params'[n].velocity = physics_params[n].velocity

\* C25: a resolved pair that is already moving apart along the collision normal
\* keeps both velocities, and a pair that is approaching gets an impulse
C25_SeparatingSkipsImpulse ==
    [][(/\ calls' = calls + 1
        /\ two_entities
        /\ contacts' # {}
        /\ position[objects[1]] # position[objects[2]]) =>
          /\ separation_speed(objects[1], objects[2]) > 0 => velocities_kept
          /\ separation_speed(objects[1], objects[2]) < 0 => ~velocities_kept]_vars

\* the relative velocity v1 - v2 of the two entities along the normal from n1
\* to n2, where they are
v_rel_normal(n1, n2) == -separation_speed(n1, n2)

\* the impulse of the claim for the two entities, where they are
claimed_j(n1, n2) ==
    LET p1 == physics_params[n1]
        p2 == physics_params[n2]
        e == Mul(Min(p1.restitution, p2.restitution), 1200)
        whole == Mul(-(One + e), v_rel_normal(n1, n2))
    IN  IF ~p1.is_static /\ ~p2.is_static
        THEN Div(whole, Div(One, p1.mass) + Div(One, p2.mass))
        ELSE IF p1.is_static THEN Mul(whole, p2.mass)
        ELSE Mul(whole, p1.mass)

\* the change j * normal / mass of the velocity of n, for the pair n1, n2
velocity_change(n1, n2, n) ==
    LET direction == Sub3(position[n2], position[n1])
        normal == collision_normal(direction, Norm(direction))
        j == claimed_j(n1, n2)
        m == physics_params[n].mass
    IN  <<Div(Mul(j, normal[1]), m), Div(Mul(j, normal[2]), m), Div(Mul(j, normal[3]), m)>>

\* C26: when _handle_collision does not skip the impulse, it is
\* j = -(1+e) * v_rel_normal / (1/m1 + 1/m2) with e = min(restitution1,
\* restitution2) * 1.2, or -(1+e) * v_rel_normal * m of the dynamic entity when
\* the other is static; the velocity of entity1 changes by +j*normal/m1, that of
\* entity2 by -j*normal/m2, and the velocity of a static entity does not change
C26_Impulse ==
    [][(/\ calls' = calls + 1
        /\ two_entities
        /\ contacts' # {}
        /\ position[objects[1]] # position[objects[2]]
        /\ ~impulse_skipped(v_rel_normal(objects[1], objects[2]))) =>
          LET n1 == objects[1]
              n2 == objects[2]
              v1 == physics_params[n1].velocity
              by == velocity_change(n1, n2, n1)
          IN  /\ physics_params'[n1].velocity =
                     IF physics_params[n1].is_static THEN v1
                     ELSE <<v1[1] + by[1], v1[2] + by[2], v1[3] + by[3]>>
              /\ physics_params'[n2].velocity =
                     IF physics_params[n2].is_static THEN physics_params[n2].velocity
                     ELSE Sub3(physics_params[n2].velocity, velocity_change(n1, n2, n2))]_vars

\* a pass that applied the impulse to two dynamic entities of masses 1 and 3
\* and restitutions 0.8 and 0.5: a, first, left at (-1,0,0) and b at rest
C26_Witness ==
    /\ call.op = "_check_collisions"
    /\ calls = 1
    /\ objects = <<"a", "b">>
    /\ contacts # {}
    /\ physics_params["a"].mass = One
    /\ physics_params["b"].mass = 3 * One
    /\ physics_params["a"].restitution = 800
    /\ physics_params["b"].restitution = 500
    /\ ~physics_params["a"].is_static
    /\ ~physics_params["b"].is_static
    /\ physics_params["a"].velocity = <<-1000 + 1200, 0, 0>>
    /\ physics_params["b"].velocity = <<-400, 0, 0>>

\* the velocity of the claim after its first step: the friction deceleration
\* friction * 9.81 / mass against the velocity, for min(d, speed / deceleration)
after_friction(p, d) ==
    LET speed == Norm(p.velocity)
        deceleration == Div(Mul(p.friction, 9810), p.mass)
        for == Min(d, Div(speed, deceleration))
        part(i) == p.velocity[i] - Mul(Mul(Div(p.velocity[i], speed), deceleration), for)
    IN  IF speed > 0 THEN <<part(1), part(2), part(3)>> ELSE p.velocity

\* the velocity of the claim after its second step, plus acceleration * d, and
\* its third, zero below the threshold
after_threshold(p, d) ==
    LET slowed == after_friction(p, d)
        sped == <<slowed[1] + Mul(p.acceleration[1], d),
                  slowed[2] + Mul(p.acceleration[2], d),
                  slowed[3] + Mul(p.acceleration[3], d)>>
    IN  IF Norm(sped) < velocity_threshold THEN Zero3 ELSE sped

\* C27: an update() with step dt gives an enabled dynamic entity the velocity
\* computed in this order: friction deceleration against the velocity, then plus
\* acceleration * dt, then zero if below velocity_threshold; the position
\* advances by that velocity times dt, and then the ground is checked (for an
\* entity the update() reached and that is in no contact)
C27_IntegrationOrder ==
    [][ticks' = ticks + 1 =>
          \A n \in DOMAIN physics_params :
              (/\ physics_params[n].enabled
               /\ ~physics_params[n].is_static
               /\ was_integrated(n, position_updated')
               /\ ~in_contact(n, contacts')) =>
                  LET v == after_threshold(physics_params[n], dt')
                      moved == <<position[n][1] + Mul(v[1], dt'),
                                 position[n][2] + Mul(v[2], dt'),
                                 position[n][3] + Mul(v[3], dt')>>
                  IN  /\ position'[n] = ground_position(moved)
                      /\ physics_params'[n].velocity =
                             ground_velocity(moved, v, physics_params[n].restitution)]_vars

\* the second update() of an entity that the first one put on the ground with
\* the velocity (0, 0, 0.245): friction takes 0.147 of it, gravity 0.490, and
\* the ground gives back half of the 0.392 that are left
C27_Witness ==
    /\ call.op = "update"
    /\ call.exc = "none"
    /\ ticks = 2
    /\ dt = 50
    /\ \E n \in DOMAIN physics_params :
           /\ physics_params[n].enabled
           /\ ~physics_params[n].is_static
           /\ ~in_contact(n, contacts)
           /\ physics_params[n].friction = 300
           /\ physics_params[n].velocity = <<0, 0, 196>>

\* C28: the time step of an update() is the time elapsed since the previous
\* update(), or since the construction for the first one, and at most 0.1;
\* every update(), one that raises too, sets last_update to the current time and
\* nothing else sets it; so whatever time has elapsed, an entity the update()
\* integrates and no collision touches advances by its velocity times 0.1 at most
C28_ClampedStep ==
    [][IF ticks' = ticks + 1
       THEN /\ dt' = Min(clock' - clock, MaxDt)
            /\ dt' <= MaxDt
            /\ last_update' = clock'
            /\ \A n \in DOMAIN physics_params :
                   (was_integrated(n, position_updated') /\ ~in_contact(n, contacts')) =>
                       \A i \in {1, 2} :
                           /\ position'[n][i] - position[n][i]
                                  = Mul(physics_params'[n].velocity[i], dt')
                           /\ Abs(position'[n][i] - position[n][i])
                                  <= Abs(Mul(physics_params'[n].velocity[i], MaxDt))
       ELSE last_update' = last_update]_vars

\* a second update() 0.25 after the first, which came 0.05 after the
\* construction: its step is 0.1, and an entity advanced in x by its velocity
\* times 0.1
C28_Witness ==
    /\ call.op = "update"
    /\ ticks = 2
    /\ clock = 300
    /\ last_update = 300
    /\ dt = MaxDt
    /\ \E n \in DOMAIN physics_params :
           /\ was_integrated(n, position_updated)
           /\ physics_params[n].velocity[1] # 0

\* C29: at the end of every update() every enabled entity that is not static
\* is at a height of 0 or more, an entity that a positional correction moved
\* during the update() included
C29_AboveGround ==
    (call.op = "update" /\ call.exc = "none") =>
        \A n \in DOMAIN physics_params :
            (physics_params[n].enabled /\ ~physics_params[n].is_static)
                => position[n][3] >= 0

\* C30: after any sequence of add_mesh, add_points, add_line, remove_object,
\* clear and set_physics_params, every name the engine holds is the name of an
\* object of the scene, and the engine holds that object
C30_EngineHoldsSceneObjects ==
    \A n \in DOMAIN scene.physics_objects :
        /\ n \in DOMAIN scene.objects
        /\ scene.physics_objects[n] = scene.objects[n]

====
